---- MODULE Spec2Model ----
(***************************************************************************)
(* Role and ClusterRole reconciliation of the Argo CD operator             *)
(* (pkg/controller/argocd/role.go).  One reconcile pass is a sequence of   *)
(* blocking API calls (List, Get, Create, Update, Delete) against the      *)
(* cluster; every API call is one step of the model, so that a failing     *)
(* call, and what the pass has written before it, is a state.              *)
(***************************************************************************)
EXTENDS Naturals, Sequences, FiniteSets, TLC

(***************************************************************************)
(* Bounds of the model.                                                    *)
(***************************************************************************)
\* API failures injected plus changes of the environment between passes.
MaxEvents == 1
\* Length of the hook registry.
MaxHooks == 1
\* The length of the lists proxyEnvVars is called with, and how often it is
\* applied to its own result.
MaxVars == 2
MaxApply == 2
\* The number of server commands remembered.
MaxHistory == 3

(***************************************************************************)
(* Component names (role.go, const block).                                 *)
(***************************************************************************)
applicationController == "argocd-application-controller"
server == "argocd-server"
redisHa == "argocd-redis-ha"
dexServer == "argocd-dex-server"

\* The components reconcileRoles walks through, in its order: four
\* reconcileRole calls, then two reconcileClusterRole calls.
RoleComponents == <<applicationController, dexServer, server, redisHa>>
ClusterRoleComponents == <<applicationController, server>>
NumPhases == Len(RoleComponents) + Len(ClusterRoleComponents)

(***************************************************************************)
(* Custom resources and namespaces.                                        *)
(***************************************************************************)
NewCR(name, namespace) == [Name |-> name, Namespace |-> namespace]
NoCR == NewCR("", "")
\* The instance of the single-instance specification.
TestCR == NewCR("argocd", "argocd")
\* The namespaces of the cluster, in the order List returns them.
NamespaceOrder == <<"argocd", "dev">>
Namespaces == {NamespaceOrder[i] : i \in 1..Len(NamespaceOrder)}

(***************************************************************************)
(* Policy rules.  A rule is a token; a rule list is a sequence of tokens.  *)
(***************************************************************************)
policyRuleForApplicationController == <<"ac-all", "ac-nonresource">>
policyRuleForDexServer == <<"dex-secrets", "dex-configmaps">>
policyRuleForServer == <<"srv-read", "srv-apps">>
policyRuleForRedisHa(cr) == <<"redis-endpoints", "redis-scc">>
policyRuleForServerClusterRole == <<"srv-cluster-read", "srv-cluster-apps">>
\* The rule a rule-changing hook appends.
TestRule == "hook-rule"
\* A rule left behind by an earlier version or by a user.
OldRule == "old-rule"

\* The rules reconcileRoles passes to reconcileRole for a component.
RoleRules(name, cr) ==
    CASE name = applicationController -> policyRuleForApplicationController
      [] name = dexServer -> policyRuleForDexServer
      [] name = server -> policyRuleForServer
      [] OTHER -> policyRuleForRedisHa(cr)

\* The rules reconcileRoles passes to reconcileClusterRole for a component.
ClusterRoleRules(name) ==
    IF name = applicationController THEN policyRuleForApplicationController
    ELSE policyRuleForServerClusterRole

(***************************************************************************)
(* Resource builders.                                                      *)
(***************************************************************************)
generateResourceName(argoComponentName, cr) ==
    cr.Name \o "-" \o argoComponentName

GenerateUniqueResourceName(argoComponentName, cr) ==
    cr.Name \o "-" \o cr.Namespace \o "-" \o argoComponentName

\* The instance label of labelsForCluster.
labelsForCluster(cr) == cr.Name

newRole(name, rules, cr) ==
    [kind |-> "Role", name |-> generateResourceName(name, cr),
     namespace |-> cr.Namespace, labels |-> labelsForCluster(cr),
     owner |-> NoCR, creator |-> NoCR, rules |-> rules]

newClusterRole(name, rules, cr) ==
    [kind |-> "ClusterRole", name |-> GenerateUniqueResourceName(name, cr),
     namespace |-> "", labels |-> labelsForCluster(cr),
     owner |-> NoCR, creator |-> NoCR, rules |-> rules]

\* controllerutil.SetControllerReference(cr, obj, scheme): obj after the
\* call.  The reference is set, or the call returns an error and leaves obj
\* as it is; lines 118 and 161 drop the error.  A library that validates the
\* owner (validate) refuses the namespaced cr as owner of a cluster-scoped
\* object and of an object of another namespace.
SetControllerReference(cr, obj, validate) ==
    IF validate /\ obj.namespace # cr.Namespace
    THEN obj
    ELSE [obj EXCEPT !.owner = cr]

\* The object c hands to Create: creator remembers the instance that issues
\* the Create (an observation, not a field of the object).
ToCreate(c, obj, validate) ==
    [SetControllerReference(c, obj, validate) EXCEPT !.creator = c]

(***************************************************************************)
(* Reconciler hooks: callbacks applied to a built object before it is      *)
(* persisted.  A hook changes the object or returns an error.              *)
(***************************************************************************)
Hooks == {"testErrorHook", "testClusterRoleErrorHook", "testRulesHook"}
HookError == "this is a test error"
\* The hooks of the Deployment tests, and the replica count one of them sets.
DeploymentHooks == {"testErrorHook", "testDeploymentHook"}
TestReplicas == 3

\* One hook applied to one object: the object it leaves and its error.
RunHook(h, obj) ==
    CASE h = "testErrorHook" -> [obj |-> obj, err |-> HookError]
      [] h = "testClusterRoleErrorHook" ->
            [obj |-> obj,
             err |-> IF obj.kind = "ClusterRole" THEN HookError ELSE ""]
      [] h = "testDeploymentHook" ->
            [obj |-> IF obj.kind = "Deployment"
                     THEN [obj EXCEPT !.replicas = TestReplicas]
                     ELSE obj,
             err |-> ""]
      [] OTHER ->
            [obj |-> IF obj.kind \in {"Role", "ClusterRole"}
                     THEN [obj EXCEPT !.rules = Append(@, TestRule)]
                     ELSE obj,
             err |-> ""]

RECURSIVE applyHooksFrom(_, _, _)
applyHooksFrom(hs, i, obj) ==
    IF i > Len(hs) THEN [obj |-> obj, err |-> ""]
    ELSE LET r == RunHook(hs[i], obj)
         IN IF r.err # "" THEN r ELSE applyHooksFrom(hs, i + 1, r.obj)

\* Faulty variant of applyReconcilerHook: the hooks run on a copy, so only
\* their error comes back.
applyReconcilerHook_Copy(hs, obj) ==
    [obj |-> obj, err |-> applyHooksFrom(hs, 1, obj).err]

\* applyReconcilerHook(cr, obj, ""): the registered hooks in order, stopping
\* at the first error.
applyReconcilerHook(hs, obj) == applyHooksFrom(hs, 1, obj)

(***************************************************************************)
(* Environment flags.                                                      *)
(***************************************************************************)
\* allowedNamespace(cr.Namespace, os.Getenv("ARGOCD_CLUSTER_CONFIG_NAMESPACES"))
allowedNamespace(namespace, list) == namespace \in list

(***************************************************************************)
(* The object store behind the API client: a function from keys to        *)
(* objects.                                                                *)
(***************************************************************************)
Put(store, key, obj) ==
    [k \in DOMAIN store \cup {key} |-> IF k = key THEN obj ELSE store[k]]
Remove(store, key) == [k \in DOMAIN store \ {key} |-> store[k]]
\* Get: the object as a one-element sequence, or << >> for not found.
Lookup(store, key) == IF key \in DOMAIN store THEN <<store[key]>> ELSE << >>
EmptyStore == [k \in {} |-> NoCR]
RoleKey(obj) == <<obj.namespace, obj.name>>

(***************************************************************************)
(* Proxy environment injector.                                             *)
(***************************************************************************)
testHTTPProxy == "example.com:8888"
testHTTPSProxy == "example.com:8443"
testNoProxy == ".example.com"

\* The proxy variables read from the process, in the order they are appended.
ProxyKeys == <<"HTTP_PROXY", "HTTPS_PROXY", "no_proxy">>

\* strings.ToLower on the variable names that occur.
ToLower(name) ==
    CASE name \in {"HTTP_PROXY", "Http_Proxy", "http_proxy"} -> "http_proxy"
      [] name \in {"HTTPS_PROXY", "https_proxy"} -> "https_proxy"
      [] name \in {"NO_PROXY", "no_proxy"} -> "no_proxy"
      [] name = "TEST_VAR" -> "test_var"
      [] OTHER -> name

EnvVar(name, value) == [Name |-> name, Value |-> value]

\* Faulty variant of HasVar: the names are compared as they are written.
HasVar_CaseSensitive(vars, key) ==
    \E i \in 1..Len(vars) : vars[i].Name = key

\* The list holds an entry whose name is key under some case variant.
HasVar(vars, key) ==
    \E i \in 1..Len(vars) : ToLower(vars[i].Name) = ToLower(key)

RECURSIVE proxyEnvVarsFrom(_, _, _)
proxyEnvVarsFrom(vars, env, i) ==
    IF i > Len(ProxyKeys) THEN vars
    ELSE LET key == ProxyKeys[i]
         IN proxyEnvVarsFrom(
                IF env[key] # "" /\ ~HasVar(vars, key)
                THEN Append(vars, EnvVar(key, env[key]))
                ELSE vars,
                env, i + 1)

\* Faulty variant of proxyEnvVars: every proxy variable of the process is
\* appended, present or not.
proxyEnvVars_Always(vars, env) ==
    vars \o SelectSeq([i \in 1..Len(ProxyKeys) |->
                          EnvVar(ProxyKeys[i], env[ProxyKeys[i]])],
                      LAMBDA e : e.Value # "")

\* proxyEnvVars(vars...): vars followed by the proxy variables of the process
\* that have a value and are not in vars under any case variant.
proxyEnvVars(vars, env) == proxyEnvVarsFrom(vars, env, 1)

\* The process environments: each proxy variable unset or set to the value
\* the tests give it.
TestProxy(key) ==
    CASE key = "HTTP_PROXY" -> testHTTPProxy
      [] key = "HTTPS_PROXY" -> testHTTPSProxy
      [] OTHER -> testNoProxy
ProxySet == [key \in {"HTTP_PROXY", "HTTPS_PROXY", "no_proxy"} |-> TestProxy(key)]
ProxyUnset == [key \in {"HTTP_PROXY", "HTTPS_PROXY", "no_proxy"} |-> ""]
ProcEnvs ==
    {[key \in DOMAIN ProxySet |-> IF key \in S THEN ProxySet[key] ELSE ""] :
        S \in SUBSET DOMAIN ProxySet}

\* The environment lists proxyEnvVars is called with.
EnvEntries ==
    {EnvVar("TEST_VAR", "testing"), EnvVar("http_proxy", "testing"),
     EnvVar("Http_Proxy", testHTTPProxy), EnvVar("HTTPS_PROXY", "testing"),
     EnvVar("no_proxy", testNoProxy)}
EnvLists == UNION {[1..n -> EnvEntries] : n \in 0..MaxVars}

NoProxyCall == [vars |-> << >>, result |-> << >>, applied |-> 0]

(***************************************************************************)
(* Deployments: builders.  A Deployment is its name, its replica count and *)
(* the volumes, containers and init containers of its pod template; a      *)
(* container is its name, image, command, environment and volume mounts.   *)
(***************************************************************************)
Container(name, image, command, env) ==
    [Name |-> name, Image |-> image, Command |-> command, Env |-> env,
     VolumeMounts |-> << >>]

Volume(name, source) == [Name |-> name, VolumeSource |-> source]
VolumeMount(name, path) == [Name |-> name, MountPath |-> path]
Mounted(container, mounts) == [container EXCEPT !.VolumeMounts = mounts]

\* The default volumes and mounts of the repo-server, the server and Dex.
repoServerDefaultVolumes ==
    <<Volume("ssh-known-hosts", "ConfigMap:ArgoCDKnownHostsConfigMapName"),
      Volume("tls-certs", "ConfigMap:ArgoCDTLSCertsConfigMapName"),
      Volume("gpg-keys", "ConfigMap:ArgoCDGPGKeysConfigMapName"),
      Volume("gpg-keyring", "EmptyDir"),
      Volume("argocd-repo-server-tls", "Secret:ArgoCDRepoServerTLSSecretName"),
      Volume("var-files", "EmptyDir")>>
repoServerDefaultVolumeMounts ==
    <<VolumeMount("ssh-known-hosts", "/app/config/ssh"),
      VolumeMount("tls-certs", "/app/config/tls"),
      VolumeMount("gpg-keys", "/app/config/gpg/source"),
      VolumeMount("gpg-keyring", "/app/config/gpg/keys"),
      VolumeMount("argocd-repo-server-tls", "/app/config/reposerver/tls"),
      VolumeMount("var-files", "/var/run/argocd")>>
serverDefaultVolumes ==
    <<Volume("ssh-known-hosts", "ConfigMap:ArgoCDKnownHostsConfigMapName"),
      Volume("tls-certs", "ConfigMap:ArgoCDTLSCertsConfigMapName"),
      Volume("argocd-repo-server-tls", "Secret:ArgoCDRepoServerTLSSecretName")>>
serverDefaultVolumeMounts ==
    <<VolumeMount("ssh-known-hosts", "/app/config/ssh"),
      VolumeMount("tls-certs", "/app/config/tls"),
      VolumeMount("argocd-repo-server-tls", "/app/config/server/tls")>>
dexVolumes == <<Volume("static-files", "EmptyDir")>>
dexVolumeMounts == <<VolumeMount("static-files", "/shared")>>

\* The image of a container: the image and the version the custom resource
\* names, each falling back to its default.
ArgoImage == "argoproj/argocd"
ArgoVersion == "default"
DexImage == "dexidp/dex"
DexVersion == "default"
CombineImageTag(img, tag) == img \o ":" \o tag
getArgoContainerImage(spec) ==
    CombineImageTag(IF spec.Image = "" THEN ArgoImage ELSE spec.Image,
                    IF spec.Version = "" THEN ArgoVersion ELSE spec.Version)
getDexContainerImage(spec) ==
    CombineImageTag(IF spec.DexImage = "" THEN DexImage ELSE spec.DexImage,
                    IF spec.DexVersion = "" THEN DexVersion
                    ELSE spec.DexVersion)

\* The Deployments of an instance, in the order reconcileDeployments
\* reconciles them.
DeploymentOrder ==
    <<"repo-server", "dex-server", "grafana", "redis", "redis-ha-haproxy",
      "server">>

nameWithSuffix(suffix, cr) == cr.Name \o "-" \o suffix

\* Faulty variant of getArgoServerCommand: --insecure is added at the end.
getArgoServerCommand_InsecureLast(spec) ==
    <<"argocd-server", "--staticassets", "/shared/app",
      "--dex-server", "http://argocd-dex-server.argocd.svc.cluster.local:5556",
      "--repo-server", "argocd-repo-server.argocd.svc.cluster.local:8081",
      "--redis", "argocd-redis.argocd.svc.cluster.local:6379">>
      \o (IF spec.Insecure THEN <<"--insecure">> ELSE << >>)

\* The command of the server container.
getArgoServerCommand(spec) ==
    <<"argocd-server">>
      \o (IF spec.Insecure THEN <<"--insecure">> ELSE << >>)
      \o <<"--staticassets", "/shared/app",
           "--dex-server", "http://argocd-dex-server.argocd.svc.cluster.local:5556",
           "--repo-server", "argocd-repo-server.argocd.svc.cluster.local:8081",
           "--redis", "argocd-redis.argocd.svc.cluster.local:6379">>

CopyUtil(spec, target, mounts) ==
    Mounted(Container("copyutil", getArgoContainerImage(spec),
                      <<"cp", "-n", "/usr/local/bin/argocd", target>>, << >>),
            mounts)

\* The init containers and the containers of a component, before the proxy
\* variables are added.
InitContainersOf(suffix, spec) ==
    CASE suffix = "repo-server" ->
            <<CopyUtil(spec, "/var/run/argocd/argocd-cmp-server",
                       <<VolumeMount("var-files", "/var/run/argocd")>>)>>
      [] suffix = "dex-server" ->
            <<CopyUtil(spec, "/shared/argocd-dex", dexVolumeMounts)>>
      [] suffix = "redis-ha-haproxy" ->
            <<Container("config-init", "haproxy", <<"sh">>, << >>)>>
      [] OTHER -> << >>

\* Faulty variant of ContainersOf: the plugin containers come first.
ContainersOf_PluginsFirst(suffix, spec) ==
    CASE suffix = "repo-server" ->
            spec.PluginContainers
              \o <<Mounted(Container("argocd-repo-server",
                                     getArgoContainerImage(spec),
                                     <<"uid_entrypoint.sh",
                                       "argocd-repo-server">>, << >>),
                           repoServerDefaultVolumeMounts)>>
      [] suffix = "dex-server" ->
            <<Mounted(Container("dex", getDexContainerImage(spec),
                                <<"/shared/argocd-dex", "rundex">>, << >>),
                      dexVolumeMounts)>>
      [] suffix = "server" ->
            <<Mounted(Container("argocd-server", getArgoContainerImage(spec),
                                getArgoServerCommand(spec), << >>),
                      serverDefaultVolumeMounts)>>
      [] suffix = "redis-ha-haproxy" ->
            <<Container("haproxy", "haproxy", <<"haproxy">>, << >>)>>
      [] OTHER -> <<Container(suffix, suffix, <<suffix>>, << >>)>>

ContainersOf(suffix, spec) ==
    CASE suffix = "repo-server" ->
            <<Mounted(Container("argocd-repo-server",
                                getArgoContainerImage(spec),
                                <<"uid_entrypoint.sh", "argocd-repo-server">>,
                                << >>),
                      repoServerDefaultVolumeMounts)>>
              \o spec.PluginContainers
      [] suffix = "dex-server" ->
            <<Mounted(Container("dex", getDexContainerImage(spec),
                                <<"/shared/argocd-dex", "rundex">>, << >>),
                      dexVolumeMounts)>>
      [] suffix = "server" ->
            <<Mounted(Container("argocd-server", getArgoContainerImage(spec),
                                getArgoServerCommand(spec), << >>),
                      serverDefaultVolumeMounts)>>
      [] suffix = "redis-ha-haproxy" ->
            <<Container("haproxy", "haproxy", <<"haproxy">>, << >>)>>
      [] OTHER -> <<Container(suffix, suffix, <<suffix>>, << >>)>>

\* Faulty variant of WithProxy: the proxy variables are put in front.
WithProxy_Prepend(containers, env) ==
    [i \in DOMAIN containers |->
        [containers[i] EXCEPT !.Env = proxyEnvVars(<< >>, env) \o @]]

\* The proxy variables added to every container of a list.
WithProxy(containers, env) ==
    [i \in DOMAIN containers |->
        [containers[i] EXCEPT !.Env = proxyEnvVars(@, env)]]

\* The volumes of a component's pod.
VolumesOf(suffix) ==
    CASE suffix = "repo-server" -> repoServerDefaultVolumes
      [] suffix = "dex-server" -> dexVolumes
      [] suffix = "server" -> serverDefaultVolumes
      [] OTHER -> << >>

\* The Deployment built for a component.
newDeployment(suffix, cr, spec, env) ==
    [kind |-> "Deployment", name |-> nameWithSuffix(suffix, cr),
     namespace |-> cr.Namespace, replicas |-> 1,
     volumes |-> VolumesOf(suffix),
     initContainers |-> WithProxy(InitContainersOf(suffix, spec), env),
     containers |-> WithProxy(ContainersOf(suffix, spec), env)]

\* The components the custom resource asks for.
Wanted(suffix, spec) ==
    CASE suffix = "grafana" -> spec.Grafana
      [] suffix = "redis-ha-haproxy" -> spec.HA
      [] OTHER -> TRUE

(***************************************************************************)
(* Deployments: one handler per component.                                 *)
(***************************************************************************)
\* Faulty variant of UpdatedDeployment: the existing pod template is kept.
UpdatedDeployment_Keep(existing, built) == existing

\* Faulty variant of UpdatedDeployment: the built volumes are added to the
\* existing ones.
UpdatedDeployment_MergeVolumes(existing, built) ==
    [existing EXCEPT !.volumes = @ \o built.volumes,
                     !.initContainers = built.initContainers,
                     !.containers = built.containers]

\* Faulty variant of UpdatedDeployment: the containers are replaced, the
\* images of the existing ones are kept.
UpdatedDeployment_KeepImages(existing, built) ==
    LET keep(old, new) ==
            [i \in DOMAIN new |->
                IF i \in DOMAIN old
                THEN [new[i] EXCEPT !.Image = old[i].Image] ELSE new[i]]
    IN [existing EXCEPT
          !.volumes = built.volumes,
          !.initContainers = keep(existing.initContainers, built.initContainers),
          !.containers = keep(existing.containers, built.containers)]

\* The update of an existing Deployment: its pod template is replaced by the
\* built one.
UpdatedDeployment(existing, built) ==
    [existing EXCEPT !.volumes = built.volumes,
                     !.initContainers = built.initContainers,
                     !.containers = built.containers]

\* Faulty variant of DeploymentAction: the Dex Deployment is kept when Dex is
\* disabled.
DeploymentAction_KeepDex(suffix, found, dexDisabled) ==
    IF ~found
    THEN IF suffix = "dex-server" /\ dexDisabled THEN "skip" ELSE "create"
    ELSE "update"

\* The branch a handler takes.
DeploymentAction(suffix, found, dexDisabled) ==
    IF ~found
    THEN IF suffix = "dex-server" /\ dexDisabled THEN "skip" ELSE "create"
    ELSE IF suffix = "dex-server" /\ dexDisabled THEN "delete" ELSE "update"

\* reconcile<Component>Deployment(cr) on a store: the store it leaves and the
\* error it returns.
reconcileDeployment(suffix, store, c, spec, env, hs, dexDisabled) ==
    LET built == newDeployment(suffix, c, spec, env)
        hooked == applyReconcilerHook(hs, built)
        key == built.name
        act == DeploymentAction(suffix, key \in DOMAIN store, dexDisabled)
    IN IF ~Wanted(suffix, spec) THEN [store |-> store, err |-> ""]
       ELSE IF hooked.err # "" THEN [store |-> store, err |-> hooked.err]
       ELSE [store |->
               CASE act = "create" -> Put(store, key, hooked.obj)
                 [] act = "update" ->
                      Put(store, key, UpdatedDeployment(store[key], hooked.obj))
                 [] act = "delete" -> Remove(store, key)
                 [] OTHER -> store,
             err |-> ""]

\* reconcileDeployments(cr): the handlers in order, up to the first error.
RECURSIVE reconcileDeploymentsFrom(_, _, _, _, _, _, _)
reconcileDeploymentsFrom(i, store, c, spec, env, hs, dexDisabled) ==
    IF i > Len(DeploymentOrder) THEN [store |-> store, err |-> ""]
    ELSE LET r == reconcileDeployment(DeploymentOrder[i], store, c, spec, env,
                                      hs, dexDisabled)
         IN IF r.err # "" THEN r
            ELSE reconcileDeploymentsFrom(i + 1, r.store, c, spec, env, hs,
                                          dexDisabled)

reconcileDeployments(store, c, spec, env, hs, dexDisabled) ==
    reconcileDeploymentsFrom(1, store, c, spec, env, hs, dexDisabled)

VARIABLES
    \* process environment and hook registry
    disableDex,               \* DISABLE_DEX is "true"
    clusterConfigNamespaces,  \* ARGOCD_CLUSTER_CONFIG_NAMESPACES, as a set
    hooks,                    \* the hook registry, in registration order
    \* cluster
    instances,                \* the ArgoCD custom resources
    validateOwner,            \* the library refuses owners out of scope
    managedBy,                \* namespace -> value of its managed-by label
    k8sRoles,                 \* <<namespace, name>> -> Role
    k8sClusterRoles,          \* name -> ClusterRole
    \* the running pass
    entry,                    \* the entry point called
    cr,                       \* its custom resource
    pc,                       \* the next API call of the pass
    phase,                    \* the call of reconcileRoles being executed
    namespaces,               \* reconcileRole: the listed namespaces
    idx,                      \* reconcileRole: position in namespaces
    roles,                    \* reconcileRole: the list to be returned
    allowed,                  \* reconcileClusterRole: allowed
    desired,                  \* the built object, after the hooks
    existing,                 \* the result of Get
    \* observation
    ret,                      \* the last return of reconcileRole(ClusterRole)
    done,                     \* outcome of the last pass, until the next change
    calls,                    \* API calls of the pass, in order
    snap,                     \* cluster and outcome when the pass started
    events,                   \* failures and environment changes so far
    \* deployments
    procEnv,                  \* the proxy variables of the process
    proxyCall,                \* proxyEnvVars: its argument and its result
    argocd,                   \* the Spec of the custom resource
    k8sDeployments,           \* cluster: Deployments of the namespace
    dret,                     \* the last return of a Deployment reconcile
    cmdLog,                   \* server commands stored by the reconciles
    \* concurrency
    other                     \* the pass of another worker, while it waits

envVars == <<disableDex, clusterConfigNamespaces, hooks, instances, managedBy,
             validateOwner>>
storeVars == <<k8sRoles, k8sClusterRoles>>
localVars == <<namespaces, idx, roles, allowed, desired, existing>>
passVars == <<entry, cr, pc, phase>>
deployVars == <<procEnv, proxyCall, argocd, k8sDeployments, dret, cmdLog>>
roleVars == <<storeVars, passVars, localVars, ret, done, calls, snap, events>>
vars == <<envVars, storeVars, passVars, localVars, ret, done, calls, snap, events,
          deployVars, other>>

(***************************************************************************)
(* Bookkeeping shared by the steps of a pass.                              *)
(***************************************************************************)
NoObj == << >>
NoRet == [fn |-> "", name |-> "", phase |-> 0, val |-> NoObj, err |-> ""]
\* No other worker runs a pass.
NoPass == [id |-> 0]
NoRole == newRole("", << >>, NoCR)

\* The record of one API call: what was called on which object and whether
\* it succeeded; phase and at are the reconcileRoles call and the position in
\* its namespace list that issued it (0 outside the loop).
Call(op, kind, namespace, name, ok) ==
    [op |-> op, kind |-> kind, namespace |-> namespace, name |-> name,
     ok |-> ok, phase |-> phase, at |-> IF kind = "Role" THEN idx ELSE 0]

\* An API call fails when the store refuses it, or by an injected failure.
Outcome(ok) ==
    /\ (~ok) => events < MaxEvents
    /\ events' = IF ok THEN events ELSE events + 1

\* isDexDisabled()
isDexDisabled == disableDex

\* Faulty variant of PhaseName: the server Role is reconciled before the Dex
\* Role.
PhaseName_ServerBeforeDex(p) ==
    IF p = 2 THEN server
    ELSE IF p = 3 THEN dexServer
    ELSE IF p <= Len(RoleComponents) THEN RoleComponents[p]
    ELSE ClusterRoleComponents[p - Len(RoleComponents)]

\* The component a phase of reconcileRoles reconciles.
PhaseName(p) ==
    IF p <= Len(RoleComponents) THEN RoleComponents[p]
    ELSE ClusterRoleComponents[p - Len(RoleComponents)]

\* Faulty variant of ManagedNamespaces: List without the label selector.
ManagedNamespaces_All(c) == NamespaceOrder

\* The namespaces whose managed-by label names the instance's namespace, in
\* List order.
ManagedNamespaces(c) ==
    SelectSeq(NamespaceOrder, LAMBDA n : managedBy[n] = c.Namespace)

\* What a pass remembers of the moment it started: the cluster, whether it
\* follows a successful pass with nothing changed in between, and whether the
\* pass before it succeeded and which Roles that pass deleted.
Snapshot(after) ==
    [roles |-> k8sRoles, clusterRoles |-> k8sClusterRoles, afterOK |-> after,
     prevOK |-> (ret.fn # "" /\ ret.err = "" /\ entry = "reconcileRoles"),
     prevDeleted |-> {<<calls[i].namespace, calls[i].name>> :
                        i \in {j \in 1..Len(calls) :
                                  /\ calls[j].op = "delete"
                                  /\ calls[j].kind = "Role"
                                  /\ calls[j].ok}}]

\* reconcileRoles after one of its calls returned err: the first error ends
\* the pass, otherwise the next call starts.
NextCall(err) ==
    IF err # ""
    THEN /\ pc' = "idle" /\ phase' = phase /\ done' = "error"
    ELSE IF entry = "reconcileRoles" /\ phase < NumPhases
    THEN /\ phase' = phase + 1
         /\ pc' = IF phase + 1 <= Len(RoleComponents) THEN "list" ELSE "crget"
         /\ done' = done
    ELSE /\ pc' = "idle" /\ phase' = phase /\ done' = "ok"

\* reconcileRole returns (val, err).
ReturnRole(val, err) ==
    /\ ret' = [fn |-> "reconcileRole", name |-> PhaseName(phase),
               phase |-> phase, val |-> val, err |-> err]
    /\ NextCall(err)

\* reconcileClusterRole returns (val, err).
ReturnClusterRole(val, err) ==
    /\ ret' = [fn |-> "reconcileClusterRole", name |-> PhaseName(phase),
               phase |-> phase, val |-> val, err |-> err]
    /\ NextCall(err)

(***************************************************************************)
(* reconcileRoles / reconcileRole                                          *)
(***************************************************************************)
ResetLocals ==
    /\ namespaces' = << >> /\ idx' = 0 /\ roles' = << >>
    /\ allowed' = FALSE /\ desired' = NoRole /\ existing' = NoObj

\* A caller invokes reconcileRoles(c).
StartReconcileRoles(c) ==
    /\ pc = "idle"
    /\ entry' = "reconcileRoles" /\ cr' = c /\ phase' = 1 /\ pc' = "list"
    /\ snap' = Snapshot(done = "ok" /\ cr = c /\ entry = "reconcileRoles")
    /\ done' = "none" /\ ret' = NoRet /\ calls' = << >>
    /\ ResetLocals
    /\ UNCHANGED <<envVars, storeVars, events>>
    /\ UNCHANGED <<deployVars, other>>

\* reconcileRole, lines 90-99: List the managed namespaces.
RoleList ==
    /\ pc = "list"
    /\ \E ok \in BOOLEAN :
        /\ Outcome(ok)
        /\ calls' = Append(calls, Call("list", "Namespace", "", "", ok))
        /\ roles' = << >>
        /\ IF ~ok
           THEN /\ ReturnRole(NoObj, "list")
                /\ UNCHANGED <<namespaces, idx>>
           ELSE /\ namespaces' = ManagedNamespaces(cr)
                /\ idx' = 1
                /\ IF ManagedNamespaces(cr) = << >>
                   THEN ReturnRole(<< >>, "")
                   ELSE /\ pc' = "get"
                        /\ UNCHANGED <<phase, done, ret>>
    /\ UNCHANGED <<envVars, storeVars, entry, cr, allowed, desired, existing, snap>>
    /\ UNCHANGED <<deployVars, other>>

\* Faulty variant of HookFailed: the error of the hooks is dropped.
HookFailed_Ignored(hooked) == FALSE

\* Lines 104 and 147: the hooks returned an error.
HookFailed(hooked) == hooked.err # ""

\* reconcileRole, lines 103-113: build the Role, apply the hooks, Get the
\* existing Role of the namespace.
RoleGet ==
    /\ pc = "get"
    /\ LET name == PhaseName(phase)
           role == newRole(name, RoleRules(name, cr), cr)
           hooked == applyReconcilerHook(hooks, role)
           built == [hooked.obj EXCEPT !.namespace = namespaces[idx]]
       IN IF HookFailed(hooked)
          THEN /\ ReturnRole(NoObj, hooked.err)
               /\ UNCHANGED <<desired, existing, calls, events>>
          ELSE \E ok \in BOOLEAN :
                /\ Outcome(ok)
                /\ desired' = built
                /\ calls' = Append(calls,
                        Call("get", "Role", built.namespace, built.name, ok))
                /\ IF ~ok
                   THEN /\ ReturnRole(NoObj, "get")
                        /\ UNCHANGED existing
                   ELSE /\ existing' = Lookup(k8sRoles, RoleKey(built))
                        /\ pc' = "write"
                        /\ UNCHANGED <<phase, done, ret>>
    /\ UNCHANGED <<envVars, storeVars, entry, cr, namespaces, idx, roles, allowed, snap>>
    /\ UNCHANGED <<deployVars, other>>

\* Faulty variant of RoleAction: an existing Role is never updated.
RoleAction_CreateOnly(name, found, dexDisabled) ==
    IF ~found
    THEN IF name = dexServer /\ dexDisabled THEN "skip" ELSE "create"
    ELSE IF name = dexServer /\ dexDisabled THEN "delete" ELSE "skip"

\* Faulty variant of RoleAction: an existing Dex Role is updated, not
\* deleted, while Dex is disabled.
RoleAction_NoDelete(name, found, dexDisabled) ==
    IF ~found
    THEN IF name = dexServer /\ dexDisabled THEN "skip" ELSE "create"
    ELSE "update"

\* Faulty variant of RoleAction: DISABLE_DEX gates the Roles of every
\* component.
RoleAction_GateAll(name, found, dexDisabled) ==
    IF ~found
    THEN IF dexDisabled THEN "skip" ELSE "create"
    ELSE IF dexDisabled THEN "delete" ELSE "update"

\* The branch reconcileRole takes for a namespace (lines 110-136).
RoleAction(name, found, dexDisabled) ==
    IF ~found
    THEN IF name = dexServer /\ dexDisabled THEN "skip" ELSE "create"
    ELSE IF name = dexServer /\ dexDisabled THEN "delete" ELSE "update"

\* Faulty variant of UpdatedRole: the computed rules are merged into the
\* existing ones.
UpdatedRole_Merge(existingRole, role) ==
    [existingRole EXCEPT !.rules = @ \o role.rules]

\* Faulty variant of UpdatedRole: the existing Role is written back as it
\* was read.
UpdatedRole_Keep(existingRole, role) == existingRole

\* Faulty variant of UpdatedRole: the built Role is written in place of the
\* existing one.
UpdatedRole_Built(existingRole, role) == role

\* Line 132: the existing Role with the rules of the built one.
UpdatedRole(existingRole, role) == [existingRole EXCEPT !.rules = role.rules]

\* The loop of reconcileRole moves to the next namespace or returns the list.
NextNamespace(list) ==
    IF idx < Len(namespaces)
    THEN /\ idx' = idx + 1 /\ pc' = "get" /\ roles' = list
         /\ UNCHANGED <<phase, done, ret>>
    ELSE /\ roles' = list /\ idx' = idx
         /\ ReturnRole(list, "")

\* The store refuses an Update of an object that is gone or that was
\* written since the Get (its resource version is no longer the one read).
Conflict(store, key, read) == key \notin DOMAIN store \/ store[key] # read

\* Faulty variant of RoleWriteFailed: the error of the write is dropped and
\* the loop goes on.
RoleWriteFailed_Continue(err) ==
    /\ NextNamespace(roles)
    /\ UNCHANGED k8sRoles

\* A write failed: reconcileRole returns nil and the error.
RoleWriteFailed(err) ==
    /\ ReturnRole(NoObj, err)
    /\ UNCHANGED <<k8sRoles, roles, idx>>

\* reconcileRole, lines 114-136: Create, Delete or Update the Role.
RoleWrite ==
    /\ pc = "write"
    /\ LET name == PhaseName(phase)
           key == RoleKey(desired)
           act == RoleAction(name, existing # NoObj, isDexDisabled)
       IN CASE act = "skip" ->
                 /\ NextNamespace(Append(roles, desired))
                 /\ UNCHANGED <<k8sRoles, calls, events>>
            [] act = "create" ->
                 LET role == ToCreate(cr, desired, validateOwner)
                 IN \E ok \in BOOLEAN :
                      /\ ok => key \notin DOMAIN k8sRoles
                      /\ Outcome(ok \/ key \in DOMAIN k8sRoles)
                      /\ calls' = Append(calls,
                            Call("create", "Role", key[1], key[2], ok))
                      /\ IF ok
                         THEN /\ k8sRoles' = Put(k8sRoles, key, role)
                              /\ NextNamespace(Append(roles, role))
                         ELSE RoleWriteFailed("create")
            [] act = "delete" ->
                 LET old == RoleKey(existing[1])
                 IN \E ok \in BOOLEAN :
                      /\ ok => old \in DOMAIN k8sRoles
                      /\ Outcome(ok \/ old \notin DOMAIN k8sRoles)
                      /\ calls' = Append(calls,
                            Call("delete", "Role", old[1], old[2], ok))
                      /\ IF ok
                         THEN /\ k8sRoles' = Remove(k8sRoles, old)
                              /\ NextNamespace(roles)
                         ELSE RoleWriteFailed("delete")
            [] OTHER ->
                 LET upd == UpdatedRole(existing[1], desired)
                     old == RoleKey(existing[1])
                 IN \E ok \in BOOLEAN :
                      /\ ok => old \in DOMAIN k8sRoles
                      /\ Outcome(ok \/ Conflict(k8sRoles, old, existing[1]))
                      /\ calls' = Append(calls,
                            Call("update", "Role", old[1], old[2], ok))
                      /\ IF ok
                         THEN /\ k8sRoles' = Put(k8sRoles, old, upd)
                              /\ NextNamespace(Append(roles, upd))
                         ELSE RoleWriteFailed("update")
    /\ UNCHANGED <<envVars, k8sClusterRoles, entry, cr, namespaces, allowed,
                   desired, existing, snap>>
    /\ UNCHANGED <<deployVars, other>>

(***************************************************************************)
(* reconcileClusterRole                                                    *)
(***************************************************************************)
\* A caller invokes reconcileClusterRole(name, rules, c) on its own.
StartReconcileClusterRole(c, p) ==
    /\ pc = "idle"
    /\ p \in (Len(RoleComponents) + 1)..NumPhases
    /\ entry' = "reconcileClusterRole" /\ cr' = c /\ phase' = p /\ pc' = "crget"
    /\ snap' = Snapshot(FALSE)
    /\ done' = "none" /\ ret' = NoRet /\ calls' = << >>
    /\ ResetLocals
    /\ UNCHANGED <<envVars, storeVars, events>>
    /\ UNCHANGED <<deployVars, other>>

\* reconcileClusterRole, lines 142-156: compute allowed, build the
\* ClusterRole, apply the hooks, Get the existing ClusterRole.
ClusterRoleGet ==
    /\ pc = "crget"
    /\ LET name == PhaseName(phase)
           clusterRole == newClusterRole(name, ClusterRoleRules(name), cr)
           hooked == applyReconcilerHook(hooks, clusterRole)
       IN /\ allowed' = allowedNamespace(cr.Namespace, clusterConfigNamespaces)
          /\ IF HookFailed(hooked)
             THEN /\ ReturnClusterRole(NoObj, hooked.err)
                  /\ UNCHANGED <<desired, existing, calls, events>>
             ELSE \E ok \in BOOLEAN :
                   /\ Outcome(ok)
                   /\ desired' = hooked.obj
                   /\ calls' = Append(calls,
                         Call("get", "ClusterRole", "", hooked.obj.name, ok))
                   /\ IF ~ok
                      THEN /\ ReturnClusterRole(NoObj, "get")
                           /\ UNCHANGED existing
                      ELSE /\ existing' = Lookup(k8sClusterRoles, hooked.obj.name)
                           /\ pc' = "crwrite"
                           /\ UNCHANGED <<phase, done, ret>>
    /\ UNCHANGED <<envVars, storeVars, entry, cr, namespaces, idx, roles, snap>>
    /\ UNCHANGED <<deployVars, other>>

\* Faulty variant of ClusterRoleAction: an existing ClusterRole is updated
\* whether the namespace is allowed or not.
ClusterRoleAction_NoDelete(found, isAllowed) ==
    IF ~found
    THEN IF isAllowed THEN "create" ELSE "noop"
    ELSE "update"

\* Faulty variant of ClusterRoleAction: a missing ClusterRole is created
\* whether the namespace is allowed or not.
ClusterRoleAction_AlwaysCreate(found, isAllowed) ==
    IF ~found
    THEN "create"
    ELSE IF isAllowed THEN "update" ELSE "delete"

\* The branch reconcileClusterRole takes (lines 153-170).
ClusterRoleAction(found, isAllowed) ==
    IF ~found
    THEN IF isAllowed THEN "create" ELSE "noop"
    ELSE IF isAllowed THEN "update" ELSE "delete"

\* Faulty variant of UpdatedClusterRole: the existing rules are written back
\* as they are.
UpdatedClusterRole_Keep(existingClusterRole, clusterRole) ==
    existingClusterRole

\* Faulty variant of UpdatedClusterRole: the computed rules are appended to
\* the existing ones.
UpdatedClusterRole_Append(existingClusterRole, clusterRole) ==
    [existingClusterRole EXCEPT !.rules = @ \o clusterRole.rules]

\* Line 169: the existing ClusterRole with the rules of the built one.
UpdatedClusterRole(existingClusterRole, clusterRole) ==
    [existingClusterRole EXCEPT !.rules = clusterRole.rules]

\* What reconcileClusterRole returns beside the error of its write
\* (lines 162, 166, 170).
ClusterRoleResult(act, obj, err) ==
    IF act = "delete" THEN NoObj ELSE <<obj>>

\* reconcileClusterRole, lines 157-170: Create, Delete or Update.
ClusterRoleWrite ==
    /\ pc = "crwrite"
    /\ LET act == ClusterRoleAction(existing # NoObj, allowed)
       IN CASE act = "noop" ->
                 /\ ReturnClusterRole(NoObj, "")
                 /\ UNCHANGED <<k8sClusterRoles, calls, events>>
            [] act = "create" ->
                 LET clusterRole == ToCreate(cr, desired, validateOwner)
                     key == clusterRole.name
                 IN \E ok \in BOOLEAN :
                      /\ ok => key \notin DOMAIN k8sClusterRoles
                      /\ Outcome(ok \/ key \in DOMAIN k8sClusterRoles)
                      /\ calls' = Append(calls,
                            Call("create", "ClusterRole", "", key, ok))
                      /\ k8sClusterRoles' =
                            IF ok THEN Put(k8sClusterRoles, key, clusterRole)
                            ELSE k8sClusterRoles
                      /\ ReturnClusterRole(
                            ClusterRoleResult(act, clusterRole,
                                              IF ok THEN "" ELSE "create"),
                            IF ok THEN "" ELSE "create")
            [] act = "delete" ->
                 LET key == existing[1].name
                 IN \E ok \in BOOLEAN :
                      /\ ok => key \in DOMAIN k8sClusterRoles
                      /\ Outcome(ok \/ key \notin DOMAIN k8sClusterRoles)
                      /\ calls' = Append(calls,
                            Call("delete", "ClusterRole", "", key, ok))
                      /\ k8sClusterRoles' =
                            IF ok THEN Remove(k8sClusterRoles, key)
                            ELSE k8sClusterRoles
                      /\ ReturnClusterRole(
                            ClusterRoleResult(act, existing[1],
                                              IF ok THEN "" ELSE "delete"),
                            IF ok THEN "" ELSE "delete")
            [] OTHER ->
                 LET upd == UpdatedClusterRole(existing[1], desired)
                     key == existing[1].name
                 IN \E ok \in BOOLEAN :
                      /\ ok => key \in DOMAIN k8sClusterRoles
                      /\ Outcome(ok \/ key \notin DOMAIN k8sClusterRoles)
                      /\ calls' = Append(calls,
                            Call("update", "ClusterRole", "", key, ok))
                      /\ k8sClusterRoles' =
                            IF ok THEN Put(k8sClusterRoles, key, upd)
                            ELSE k8sClusterRoles
                      /\ ReturnClusterRole(
                            ClusterRoleResult(act, upd,
                                              IF ok THEN "" ELSE "update"),
                            IF ok THEN "" ELSE "update")
    /\ UNCHANGED <<envVars, k8sRoles, entry, cr, localVars, snap>>
    /\ UNCHANGED <<deployVars, other>>

(***************************************************************************)
(* The environment of the operator, changed between passes.                *)
(***************************************************************************)
EnvChange ==
    /\ pc = "idle"
    /\ events < MaxEvents
    /\ events' = events + 1
    /\ done' = "none"
    /\ UNCHANGED <<storeVars, passVars, localVars, ret, calls, snap>>
    /\ UNCHANGED <<deployVars, other>>

\* os.Setenv("DISABLE_DEX", ...)
SetDisableDex(b) ==
    /\ b # disableDex
    /\ EnvChange
    /\ disableDex' = b
    /\ UNCHANGED <<clusterConfigNamespaces, hooks, instances, managedBy,
                   validateOwner>>

\* os.Setenv("ARGOCD_CLUSTER_CONFIG_NAMESPACES", ...)
SetClusterConfigNamespaces(list) ==
    /\ list # clusterConfigNamespaces
    /\ EnvChange
    /\ clusterConfigNamespaces' = list
    /\ UNCHANGED <<disableDex, hooks, instances, managedBy,
                   validateOwner>>

\* Register(h)
Register(h) ==
    /\ Len(hooks) < MaxHooks
    /\ EnvChange
    /\ hooks' = Append(hooks, h)
    /\ UNCHANGED <<disableDex, clusterConfigNamespaces, instances, managedBy,
                   validateOwner>>

\* resetHooks()
resetHooks ==
    /\ hooks # << >>
    /\ EnvChange
    /\ hooks' = << >>
    /\ UNCHANGED <<disableDex, clusterConfigNamespaces, instances, managedBy,
                   validateOwner>>

\* A user sets or removes the managed-by label of a namespace.
LabelNamespace(n, v) ==
    /\ managedBy[n] # v
    /\ EnvChange
    /\ managedBy' = [managedBy EXCEPT ![n] = v]
    /\ UNCHANGED <<disableDex, clusterConfigNamespaces, hooks, instances,
                   validateOwner>>

(***************************************************************************)
(* Deployments: the calls of the handlers and the changes of the custom    *)
(* resource between them.                                                  *)
(***************************************************************************)
NoDret == [fn |-> "", err |-> "", found |-> {}, disableDex |-> FALSE,
           hooks |-> << >>, before |-> EmptyStore]

\* A handler returned r: dret remembers which Deployments it found and the
\* flag and the hooks it ran under.
DeploymentsReturn(fn, r) ==
    dret' = [fn |-> fn, err |-> r.err, found |-> DOMAIN k8sDeployments,
             disableDex |-> disableDex, hooks |-> hooks,
             before |-> k8sDeployments]

HandlerOf(suffix) ==
    CASE suffix = "repo-server" -> "reconcileRepoDeployment"
      [] suffix = "dex-server" -> "reconcileDexDeployment"
      [] suffix = "grafana" -> "reconcileGrafanaDeployment"
      [] suffix = "redis" -> "reconcileRedisDeployment"
      [] suffix = "redis-ha-haproxy" -> "reconcileRedisHaProxyDeployment"
      [] OTHER -> "reconcileServerDeployment"

\* The command of the server container a handler has stored is remembered
\* with the toggle it was stored under.
LogCommand(store, c, r) ==
    LET key == nameWithSuffix("server", c)
    IN IF r.err = "" /\ key \in DOMAIN store /\ Len(cmdLog) < MaxHistory
       THEN Append(cmdLog, [insecure |-> argocd.Insecure,
                            command |-> store[key].containers[1].Command])
       ELSE cmdLog

\* proxyEnvVars is called, the first time with the given list and then with
\* its own result.
CallProxyEnvVars ==
    /\ proxyCall.applied < MaxApply
    /\ proxyCall' = [vars |-> proxyCall.result,
                     result |-> proxyEnvVars(proxyCall.result, procEnv),
                     applied |-> proxyCall.applied + 1]
    /\ UNCHANGED <<procEnv, argocd, k8sDeployments, dret, cmdLog>>
    /\ UNCHANGED <<envVars, roleVars, other>>

\* A caller invokes reconcileDeployments(c).
CallReconcileDeployments(c) ==
    /\ pc = "idle"
    /\ LET r == reconcileDeployments(k8sDeployments, c, argocd, procEnv,
                                     hooks, isDexDisabled)
       IN /\ k8sDeployments' = r.store
          /\ DeploymentsReturn("reconcileDeployments", r)
          /\ cmdLog' = LogCommand(r.store, c, r)
    /\ UNCHANGED <<procEnv, proxyCall, argocd>>
    /\ UNCHANGED <<envVars, roleVars, other>>

\* A caller invokes the handler of one component, the one entry names.
CallReconcileDeployment(c, suffix) ==
    /\ pc = "idle"
    /\ entry = HandlerOf(suffix)
    /\ LET r == reconcileDeployment(suffix, k8sDeployments, c, argocd,
                                    procEnv, hooks, isDexDisabled)
       IN /\ k8sDeployments' = r.store
          /\ DeploymentsReturn(HandlerOf(suffix), r)
          /\ cmdLog' = IF suffix = "server"
                       THEN LogCommand(r.store, c, r) ELSE cmdLog
    /\ UNCHANGED <<procEnv, proxyCall, argocd>>
    /\ UNCHANGED <<envVars, roleVars, other>>

\* The user changes Spec.Server.Insecure.
SetInsecure(b) ==
    /\ pc = "idle"
    /\ b # argocd.Insecure
    /\ argocd' = [argocd EXCEPT !.Insecure = b]
    /\ dret' = NoDret
    /\ UNCHANGED <<procEnv, proxyCall, k8sDeployments, cmdLog>>
    /\ UNCHANGED <<envVars, roleVars, other>>

\* The user changes Spec.Repo.PluginContainers.
SetPluginContainers(list) ==
    /\ pc = "idle"
    /\ list # argocd.PluginContainers
    /\ argocd' = [argocd EXCEPT !.PluginContainers = list]
    /\ dret' = NoDret
    /\ UNCHANGED <<procEnv, proxyCall, k8sDeployments, cmdLog>>
    /\ UNCHANGED <<envVars, roleVars, other>>

\* The custom resources of the tests.
NoSpec == [Insecure |-> FALSE, HA |-> FALSE, Grafana |-> FALSE,
           PluginContainers |-> << >>, Image |-> "", Version |-> "",
           DexImage |-> "", DexVersion |-> ""]
Plugin(name, image, env) ==
    Container(name, image, <<"/var/run/argocd/argocd-cmp-server">>, env)
PluginLists ==
    {<< >>,
     <<Plugin("cdk8s", "docker.ui/cdk8s/cdk8s:latest", << >>)>>,
     <<Plugin("newname", "newimage:latest", << >>)>>,
     <<Plugin("cdk8s", "docker.ui/cdk8s/cdk8s:latest", << >>),
       Plugin("kustomize", "kustomize:latest", << >>)>>}

\* The user changes Spec.Image, Spec.Version, Spec.Dex.Image and
\* Spec.Dex.Version.
ImageSpecs ==
    {[Image |-> "", Version |-> "", DexImage |-> "", DexVersion |-> ""],
     [Image |-> "justatest", Version |-> "latest",
      DexImage |-> "testdex", DexVersion |-> "v0.0.1"],
     [Image |-> "", Version |-> "", DexImage |-> "testdex", DexVersion |-> ""]}
SetImages(i) ==
    /\ pc = "idle"
    /\ argocd' = [argocd EXCEPT !.Image = i.Image, !.Version = i.Version,
                                !.DexImage = i.DexImage,
                                !.DexVersion = i.DexVersion]
    /\ argocd' # argocd
    /\ dret' = NoDret
    /\ UNCHANGED <<procEnv, proxyCall, k8sDeployments, cmdLog>>
    /\ UNCHANGED <<envVars, roleVars, other>>

\* Nothing of the Deployments is in use.
DeployIdle ==
    /\ procEnv = ProxyUnset /\ proxyCall = NoProxyCall /\ argocd = NoSpec
    /\ k8sDeployments = EmptyStore /\ dret = NoDret /\ cmdLog = << >>

(***************************************************************************)
(* Initial states: one instance, any setting of the flags, any labelling   *)
(* of the namespaces, and a cluster that is empty or holds Roles and       *)
(* ClusterRoles of the instance's names left by someone else.              *)
(***************************************************************************)
\* A rule list that differs from the computed one: reordered, with a rule
\* that is not computed any more.
StaleRules(rules) == <<rules[2], OldRule, rules[1]>>

StaleRole(name, namespace, c) ==
    [newRole(name, StaleRules(RoleRules(name, c)), c)
        EXCEPT !.namespace = namespace, !.labels = ""]
StaleClusterRole(name, c) ==
    [newClusterRole(name, StaleRules(ClusterRoleRules(name)), c)
        EXCEPT !.labels = ""]

Range(seq) == {seq[i] : i \in 1..Len(seq)}

\* The Roles of c's names in the namespaces nss, all stale.
StaleRoles(nss, c) ==
    [k \in {<<n, generateResourceName(name, c)>> :
                n \in nss, name \in Range(RoleComponents)} |->
        CHOOSE r \in {StaleRole(name, k[1], c) : name \in Range(RoleComponents)} :
            r.name = k[2]]
StaleClusterRoles(names, c) ==
    [k \in {GenerateUniqueResourceName(name, c) : name \in names} |->
        CHOOSE r \in {StaleClusterRole(name, c) : name \in names} : r.name = k]

Fixtures(c) ==
    { [roles |-> EmptyStore, clusterRoles |-> EmptyStore],
      [roles |-> StaleRoles(Namespaces, c),
       clusterRoles |-> StaleClusterRoles(Range(ClusterRoleComponents), c)],
      [roles |-> StaleRoles({NamespaceOrder[Len(NamespaceOrder)]}, c),
       clusterRoles |-> StaleClusterRoles({server}, c)] }

HookRegistries == {<< >>} \cup {<<h>> : h \in Hooks}

InitPassAt(e) ==
    /\ entry = e /\ cr = NoCR /\ pc = "idle" /\ phase = 0
    /\ namespaces = << >> /\ idx = 0 /\ roles = << >>
    /\ allowed = FALSE /\ desired = NoRole /\ existing = NoObj
    /\ ret = NoRet /\ done = "none" /\ calls = << >>
    /\ snap = [roles |-> EmptyStore, clusterRoles |-> EmptyStore,
               afterOK |-> FALSE, prevOK |-> FALSE, prevDeleted |-> {}]
    /\ events = 0
    /\ other = NoPass

InitPass == InitPassAt("")

\* The cluster, the flags and the registry a run starts with.
InitCluster ==
    /\ instances = {TestCR}
    /\ disableDex \in BOOLEAN
    /\ clusterConfigNamespaces \in SUBSET {TestCR.Namespace}
    /\ hooks \in HookRegistries
    /\ managedBy \in [Namespaces -> {"", TestCR.Namespace}]
    /\ \E f \in Fixtures(TestCR) :
        /\ k8sRoles = f.roles
        /\ k8sClusterRoles = f.clusterRoles
    /\ InitPass
    /\ DeployIdle

\* The controller-runtime library of the build validates owner references.
Init == InitCluster /\ validateOwner = TRUE

Next ==
    \/ \E c \in instances : StartReconcileRoles(c)
    \/ RoleList
    \/ RoleGet
    \/ RoleWrite
    \/ ClusterRoleGet
    \/ ClusterRoleWrite
    \/ \E b \in BOOLEAN : SetDisableDex(b)
    \/ \E list \in SUBSET {c.Namespace : c \in instances} :
          SetClusterConfigNamespaces(list)
    \/ \E h \in Hooks : Register(h)
    \/ resetHooks
    \/ \E n \in Namespaces, v \in {""} \cup {c.Namespace : c \in instances} :
          LabelNamespace(n, v)

Spec == Init /\ [][Next]_vars

TypeOK ==
    /\ pc \in {"idle", "list", "get", "write", "crget", "crwrite"}
    /\ done \in {"none", "ok", "error"}
    /\ events \in 0..MaxEvents
    /\ Len(hooks) <= MaxHooks

(***************************************************************************)
(* Vocabulary of the properties.                                           *)
(***************************************************************************)
\* The namespaces labelled as managed by instance c.
Managed(c) == {n \in Namespaces : managedBy[n] = c.Namespace}

\* The flags and labels are those the last pass ran (or runs) under.
EnvOfPass == pc # "idle" \/ done # "none"

\* A reconcileRoles pass has returned nil and nothing changed since.
PassOK == done = "ok" /\ entry = "reconcileRoles"

\* The rules of the Role / ClusterRole a pass builds for a component, as the
\* registered hooks leave them.
BuiltRoleRules(name, c) ==
    applyReconcilerHook(hooks, newRole(name, RoleRules(name, c), c)).obj.rules
BuiltClusterRoleRules(name, c) ==
    applyReconcilerHook(hooks,
        newClusterRole(name, ClusterRoleRules(name), c)).obj.rules

\* The Roles of namespace n that carry the name of component name of c.
RolesNamed(n, name, c) ==
    {k \in DOMAIN k8sRoles :
        k[1] = n /\ k8sRoles[k].name = generateResourceName(name, c)}

Writes == {"create", "update", "delete"}
CallIdx == 1..Len(calls)
\* The API calls issued by call p of reconcileRoles.
CallsOfPhase(p) == SelectSeq(calls, LAMBDA c : c.phase = p)

(***************************************************************************)
(* C1                                                                      *)
(***************************************************************************)
\* C1 as stated: after a successful reconcileRoles pass every managed
\* namespace holds exactly one Role per component (application-controller,
\* dex-server, server, redis-ha) and its rules are the canonical policy rules
\* of the component.
C1_Original ==
    PassOK =>
        \A n \in Managed(cr), name \in Range(RoleComponents) :
            /\ Cardinality(RolesNamed(n, name, cr)) = 1
            /\ \A k \in RolesNamed(n, name, cr) :
                  k8sRoles[k].rules = RoleRules(name, cr)

\* C1 as amended: after a successful reconcileRoles pass every managed
\* namespace holds, for every component, exactly one Role of the component's
\* name whose rules are the rules of the Role the pass built (the canonical
\* rules as the registered hooks left them); except for dex-server while
\* DISABLE_DEX is set, where the namespace holds no Role of that name.  This
\* holds whatever Roles existed before the pass.
C1_RolesConverged ==
    PassOK =>
        \A n \in Managed(cr), name \in Range(RoleComponents) :
            IF name = dexServer /\ isDexDisabled
            THEN RolesNamed(n, name, cr) = {}
            ELSE /\ Cardinality(RolesNamed(n, name, cr)) = 1
                 /\ \A k \in RolesNamed(n, name, cr) :
                       k8sRoles[k].rules = BuiltRoleRules(name, cr)

\* A pass succeeded over two managed namespaces of which one held stale Roles
\* and the other none.
C1_Witness ==
    /\ PassOK
    /\ Cardinality(Managed(cr)) = 2
    /\ \E k \in DOMAIN snap.roles :
          k[1] \in Managed(cr) /\ k8sRoles[k].rules # snap.roles[k].rules
    /\ \E k \in DOMAIN k8sRoles : k[1] \in Managed(cr) /\ k \notin DOMAIN snap.roles

(***************************************************************************)
(* C2                                                                      *)
(***************************************************************************)
\* reconcileRole(dex-server) has returned nil in the current or last pass.
DexRoleReconciled ==
    /\ entry = "reconcileRoles" /\ EnvOfPass
    /\ phase > 2 \/ (phase = 2 /\ pc = "idle" /\ done = "ok")

DexRoleCreated ==
    \E i \in CallIdx :
        /\ calls[i].op = "create" /\ calls[i].kind = "Role"
        /\ calls[i].name = generateResourceName(dexServer, cr)

\* C2 as stated: once reconcileRole(dex-server) has succeeded with
\* DISABLE_DEX set, no managed namespace holds the Dex Role and none is
\* created while the flag stays set; once it has succeeded with Dex enabled,
\* every managed namespace holds the Dex Role with the canonical Dex rules.
C2_Original ==
    /\ (EnvOfPass /\ isDexDisabled) => ~DexRoleCreated
    /\ DexRoleReconciled =>
        \A n \in Managed(cr) :
            IF isDexDisabled
            THEN RolesNamed(n, dexServer, cr) = {}
            ELSE \E k \in RolesNamed(n, dexServer, cr) :
                    k8sRoles[k].rules = policyRuleForDexServer

\* C2 as amended: as stated, but the recreated Role carries the rules of the
\* Role the pass built: the canonical Dex rules as the registered hooks left
\* them.
C2_DexRoleLifecycle ==
    /\ (EnvOfPass /\ isDexDisabled) => ~DexRoleCreated
    /\ DexRoleReconciled =>
        \A n \in Managed(cr) :
            IF isDexDisabled
            THEN RolesNamed(n, dexServer, cr) = {}
            ELSE \E k \in RolesNamed(n, dexServer, cr) :
                    k8sRoles[k].rules = BuiltRoleRules(dexServer, cr)

\* The pass before deleted the Dex Role of a managed namespace, Dex was
\* enabled again, and this pass has created the Role anew.
C2_Witness ==
    /\ DexRoleReconciled /\ ~isDexDisabled
    /\ snap.prevOK
    /\ \E k \in snap.prevDeleted :
          /\ k[1] \in Managed(cr)
          /\ k \notin DOMAIN snap.roles
          /\ k \in DOMAIN k8sRoles
          /\ k8sRoles[k].rules = policyRuleForDexServer

(***************************************************************************)
(* C3                                                                      *)
(***************************************************************************)
\* reconcileClusterRole has returned (nil error or not) under the current
\* flags.
ClusterRoleReturned == ret.fn = "reconcileClusterRole" /\ EnvOfPass

\* C3 as stated: after a successful reconcileClusterRole, the ClusterRole
\* <instance>-<namespace>-<component> exists with the rules passed in when the
\* instance's namespace is in ARGOCD_CLUSTER_CONFIG_NAMESPACES, and does not
\* exist when it is not.
C3_Original ==
    (ClusterRoleReturned /\ ret.err = "") =>
        LET n == GenerateUniqueResourceName(ret.name, cr)
        IN IF allowedNamespace(cr.Namespace, clusterConfigNamespaces)
           THEN /\ n \in DOMAIN k8sClusterRoles
                /\ k8sClusterRoles[n].rules = ClusterRoleRules(ret.name)
           ELSE n \notin DOMAIN k8sClusterRoles

\* C3 as amended: as stated, with the rules of the stored ClusterRole equal
\* to the rules of the ClusterRole the call built: the rules passed in as the
\* registered hooks left them.
C3_ClusterRoleConverged ==
    (ClusterRoleReturned /\ ret.err = "") =>
        LET n == GenerateUniqueResourceName(ret.name, cr)
        IN IF allowedNamespace(cr.Namespace, clusterConfigNamespaces)
           THEN /\ n \in DOMAIN k8sClusterRoles
                /\ k8sClusterRoles[n].name = n
                /\ k8sClusterRoles[n].rules = BuiltClusterRoleRules(ret.name, cr)
           ELSE n \notin DOMAIN k8sClusterRoles

\* A pass has reconciled both ClusterRoles: one was present when the pass
\* started and the other absent.
C3_Witness ==
    /\ PassOK
    /\ \E a, b \in Range(ClusterRoleComponents) :
          /\ GenerateUniqueResourceName(a, cr) \in DOMAIN snap.clusterRoles
          /\ GenerateUniqueResourceName(b, cr) \notin DOMAIN snap.clusterRoles
          /\ IF allowedNamespace(cr.Namespace, clusterConfigNamespaces)
             THEN GenerateUniqueResourceName(b, cr) \in DOMAIN k8sClusterRoles
             ELSE GenerateUniqueResourceName(a, cr) \notin DOMAIN k8sClusterRoles

(***************************************************************************)
(* C4                                                                      *)
(***************************************************************************)
NotAllowed == ~allowedNamespace(cr.Namespace, clusterConfigNamespaces)
AllOK(cs) == \A i \in 1..Len(cs) : cs[i].ok

\* C4 as stated: when ARGOCD_CLUSTER_CONFIG_NAMESPACES excludes the
\* instance's namespace, reconcileClusterRole issues no Create, Update or
\* Delete and returns no error, in every starting cluster state (the API
\* calls it issues succeed and no hook fails).
C4_Original ==
    (ClusterRoleReturned /\ NotAllowed /\ ret.err # HookError
        /\ AllOK(CallsOfPhase(ret.phase))) =>
        /\ ret.err = ""
        /\ \A i \in CallIdx :
              calls[i].phase = ret.phase => calls[i].op \notin Writes

\* C4 as amended: when ARGOCD_CLUSTER_CONFIG_NAMESPACES excludes the
\* instance's namespace, reconcileClusterRole never issues a Create or an
\* Update and returns a nil object.  Where no ClusterRole of its name exists
\* it issues no write and returns a nil error; where one exists it issues one
\* Delete for it and returns the error of that Delete.
C4_NotAllowed ==
    (ClusterRoleReturned /\ NotAllowed) =>
        LET cs == CallsOfPhase(ret.phase)
            n == GenerateUniqueResourceName(ret.name, cr)
        IN /\ \A i \in 1..Len(cs) : cs[i].op \notin {"create", "update"}
           /\ ret.val = NoObj
           /\ (Len(cs) >= 1 /\ cs[1].ok) =>
                IF n \in DOMAIN snap.clusterRoles
                THEN /\ Len(cs) = 2
                     /\ cs[2].op = "delete" /\ cs[2].name = n
                     /\ (ret.err = "") <=> cs[2].ok
                     /\ cs[2].ok => n \notin DOMAIN k8sClusterRoles
                ELSE /\ Len(cs) = 1
                     /\ ret.err = ""
                     /\ n \notin DOMAIN k8sClusterRoles

\* A pass in a namespace that is not allowed found the first ClusterRole
\* absent and left it so, found the second present and deleted it.
C4_Witness ==
    /\ PassOK /\ NotAllowed
    /\ Len(CallsOfPhase(NumPhases - 1)) = 1
    /\ Len(CallsOfPhase(NumPhases)) = 2
    /\ DOMAIN snap.clusterRoles # {}
    /\ k8sClusterRoles = EmptyStore

(***************************************************************************)
(* C5                                                                      *)
(***************************************************************************)
\* The object an API call was about, as the cluster holds it now.
StoreOf(c) == IF c.kind = "Role" THEN k8sRoles ELSE k8sClusterRoles
KeyOf(c) == IF c.kind = "Role" THEN <<c.namespace, c.name>> ELSE c.name
SnapOf(c) == IF c.kind = "Role" THEN snap.roles ELSE snap.clusterRoles
\* The rules computed for the object of a call.
BuiltRules(c) ==
    IF c.kind = "Role" THEN BuiltRoleRules(PhaseName(c.phase), cr)
    ELSE BuiltClusterRoleRules(PhaseName(c.phase), cr)

\* C5: after a successful Update by reconcileRole or reconcileClusterRole the
\* stored object's rule list equals the freshly computed list (the rules of
\* the object the pass built), element for element and in the same order;
\* no rule of the old list that is not computed any more is retained.
C5_RulesReplaced ==
    /\ EnvOfPass =>
        \A i \in CallIdx :
            (calls[i].op = "update" /\ calls[i].ok) =>
                /\ KeyOf(calls[i]) \in DOMAIN StoreOf(calls[i])
                /\ StoreOf(calls[i])[KeyOf(calls[i])].rules = BuiltRules(calls[i])
                /\ OldRule \notin Range(StoreOf(calls[i])[KeyOf(calls[i])].rules)
    /\ (calls # << >> /\ calls[Len(calls)].op = "update" /\ calls[Len(calls)].ok) =>
          StoreOf(calls[Len(calls)])[KeyOf(calls[Len(calls)])].rules = desired.rules

\* An Update has replaced a rule list that held the computed rules in another
\* order together with an old rule.
C5_Witness ==
    /\ EnvOfPass
    /\ \E i \in CallIdx :
          /\ calls[i].op = "update" /\ calls[i].ok
          /\ KeyOf(calls[i]) \in DOMAIN SnapOf(calls[i])
          /\ OldRule \in Range(SnapOf(calls[i])[KeyOf(calls[i])].rules)
          /\ StoreOf(calls[i])[KeyOf(calls[i])].rules = BuiltRules(calls[i])

(***************************************************************************)
(* C6                                                                      *)
(***************************************************************************)
\* C6: a successful reconcileRoles pass that follows a successful pass of the
\* same instance, with flags, hooks and labels unchanged in between, leaves
\* the Roles and ClusterRoles of the cluster as the first pass left them, and
\* issues no Create and no Delete: only Updates of objects that existed.
C6_Idempotent ==
    (PassOK /\ snap.afterOK) =>
        /\ k8sRoles = snap.roles
        /\ k8sClusterRoles = snap.clusterRoles
        /\ \A i \in CallIdx :
              /\ calls[i].op \notin {"create", "delete"}
              /\ calls[i].op = "update" =>
                    KeyOf(calls[i]) \in DOMAIN SnapOf(calls[i])

\* A second pass in a row has succeeded and has updated Roles and a
\* ClusterRole.
C6_Witness ==
    /\ PassOK /\ snap.afterOK
    /\ \E i, j \in CallIdx :
          /\ calls[i].op = "update" /\ calls[i].kind = "Role"
          /\ calls[j].op = "update" /\ calls[j].kind = "ClusterRole"

(***************************************************************************)
(* C7                                                                      *)
(***************************************************************************)
\* C7: in reconcileRole a failed List, Get, Create, Update or Delete is the
\* last API call of the pass: the call returns the error at once, with a nil
\* role list.  What the pass wrote before stays written.  A Get that finds
\* nothing is not a failure: an error of Get is returned only when the Get
\* itself failed.
C7_RoleFailure ==
    /\ \A i \in CallIdx :
          (~calls[i].ok /\ calls[i].kind # "ClusterRole") =>
              /\ i = Len(calls)
              /\ pc = "idle" /\ done # "ok"
              /\ ret = [fn |-> "reconcileRole", name |-> PhaseName(calls[i].phase),
                        phase |-> calls[i].phase, val |-> NoObj,
                        err |-> calls[i].op]
    /\ (ret.fn = "reconcileRole" /\ ret.err # "") =>
          /\ pc = "idle" /\ done # "ok" /\ ret.val = NoObj
          /\ ret.err # HookError =>
                /\ calls # << >>
                /\ ~calls[Len(calls)].ok
                /\ calls[Len(calls)].op = ret.err
                /\ \A i \in CallIdx : calls[i].at <= calls[Len(calls)].at
                                        \/ calls[i].phase < ret.phase
          /\ \A i \in CallIdx :
                (calls[i].ok /\ calls[i].kind = "Role" /\ calls[i].op \in Writes) =>
                    IF calls[i].op = "delete"
                    THEN KeyOf(calls[i]) \notin DOMAIN k8sRoles
                    ELSE /\ KeyOf(calls[i]) \in DOMAIN k8sRoles
                         /\ EnvOfPass =>
                              k8sRoles[KeyOf(calls[i])].rules = BuiltRules(calls[i])

\* A write for the second managed namespace failed after the Role of the
\* first had been written.
C7_Witness ==
    /\ ret.fn = "reconcileRole" /\ ret.err \in Writes
    /\ Len(namespaces) = 2 /\ idx = 2
    /\ \E i \in CallIdx :
          /\ calls[i].phase = ret.phase /\ calls[i].at = 1
          /\ calls[i].op \in Writes /\ calls[i].ok
          /\ KeyOf(calls[i]) \in DOMAIN k8sRoles

(***************************************************************************)
(* C8                                                                      *)
(***************************************************************************)
\* C8 as stated: when a hook has returned an error in a reconcileRoles pass,
\* the pass has issued no Create, Update or Delete.
C8_Original ==
    (entry = "reconcileRoles" /\ ret.err = HookError) =>
        \A i \in CallIdx : calls[i].op \notin Writes

\* The hooks accept the object a call of the pass was about.
HooksAccept(kind, name) ==
    IF kind = "Role"
    THEN applyReconcilerHook(hooks, newRole(name, RoleRules(name, cr), cr)).err = ""
    ELSE applyReconcilerHook(hooks,
            newClusterRole(name, ClusterRoleRules(name), cr)).err = ""

\* C8 as amended: when a hook returns an error for an object, the pass ends
\* with that error and a nil result before any Get, Create, Update or Delete
\* for that object; no API call is issued for an object the hooks reject.
\* Writes the pass issued for objects it reconciled earlier stand.
C8_HookFailure ==
    /\ (EnvOfPass /\ pc = "write") => HooksAccept("Role", PhaseName(phase))
    /\ (EnvOfPass /\ pc = "crwrite") => HooksAccept("ClusterRole", PhaseName(phase))
    /\ EnvOfPass =>
          \A i \in CallIdx :
              calls[i].kind # "Namespace" =>
                  HooksAccept(calls[i].kind, PhaseName(calls[i].phase))
    /\ ret.err = HookError =>
          /\ pc = "idle" /\ done # "ok" /\ ret.val = NoObj
          /\ \A i \in CallIdx :
                calls[i].phase = ret.phase => calls[i].kind = "Namespace"
          /\ \A i \in CallIdx :
                (calls[i].ok /\ calls[i].op \in {"create", "update"}) =>
                    KeyOf(calls[i]) \in DOMAIN StoreOf(calls[i])

\* A hook rejected a ClusterRole after the pass had written Roles.
C8_Witness ==
    /\ entry = "reconcileRoles" /\ ret.err = HookError
    /\ ret.fn = "reconcileClusterRole"
    /\ \E i \in CallIdx : calls[i].ok /\ calls[i].op \in Writes

(***************************************************************************)
(* C10                                                                     *)
(***************************************************************************)
\* C10: reconcileRole and reconcileClusterRole return the object(s) or an
\* error, never both: a non-nil error comes with a nil object or role list.
C10_Original == ret.err # "" => ret.val = NoObj

(***************************************************************************)
(* C9: several instances, whose names and namespaces may contain '-',      *)
(* each calling reconcileClusterRole.                                      *)
(***************************************************************************)
InstanceNames == {"a", "a-b"}
InstanceNamespaces == {"c", "b-c"}
Candidates == {NewCR(n, ns) : n \in InstanceNames, ns \in InstanceNamespaces}

InitNames ==
    /\ instances \in {S \in SUBSET Candidates : Cardinality(S) = 2}
    /\ validateOwner \in BOOLEAN
    /\ disableDex = FALSE
    /\ clusterConfigNamespaces \in SUBSET InstanceNamespaces
    /\ hooks = << >>
    /\ managedBy = [n \in Namespaces |-> ""]
    /\ k8sRoles = EmptyStore
    /\ k8sClusterRoles = EmptyStore
    /\ InitPass
    /\ DeployIdle

NextNames ==
    \/ \E c \in instances, p \in (Len(RoleComponents) + 1)..NumPhases :
          StartReconcileClusterRole(c, p)
    \/ ClusterRoleGet
    \/ ClusterRoleWrite

SpecNames == InitNames /\ [][NextNames]_vars

\* C9: two instances whose (name, namespace) pairs differ get different
\* ClusterRole names for a component, so that the name of a stored
\* ClusterRole is the name only its creator computes, and no
\* reconcileClusterRole updates or deletes a ClusterRole that another
\* instance created.
C9_Original ==
    /\ \A n \in DOMAIN k8sClusterRoles :
          \A c \in instances, name \in Range(ClusterRoleComponents) :
              GenerateUniqueResourceName(name, c) = n =>
                  k8sClusterRoles[n].creator = c
    /\ (/\ calls # << >>
        /\ calls[Len(calls)].kind = "ClusterRole"
        /\ calls[Len(calls)].op \in {"update", "delete"}
        /\ calls[Len(calls)].ok) => existing[1].creator = cr

(***************************************************************************)
(* C11: passes re-invoked for ever.  The caller starts a pass whenever none *)
(* runs and every blocking call of a pass returns; the budget of events    *)
(* makes the API calls stop failing and the environment stop changing.     *)
(***************************************************************************)
PassStep ==
    \/ \E c \in instances : StartReconcileRoles(c)
    \/ RoleList
    \/ RoleGet
    \/ RoleWrite
    \/ ClusterRoleGet
    \/ ClusterRoleWrite

\* The passes start on a cluster that holds stale Roles in one namespace and
\* one stale ClusterRole, so that they create, update and delete.
InitLive ==
    /\ Init
    /\ k8sRoles = StaleRoles({NamespaceOrder[Len(NamespaceOrder)]}, TestCR)
    /\ k8sClusterRoles = StaleClusterRoles({server}, TestCR)

SpecLive == InitLive /\ [][Next]_vars /\ WF_vars(PassStep)

\* The cluster holds what the flags call for, for instance c: in every
\* managed namespace the Role of every component with the computed rules (no
\* Dex Role while Dex is disabled), and the ClusterRoles exactly when the
\* instance's namespace is allowed.
Converged(c) ==
    /\ \A n \in Managed(c), name \in Range(RoleComponents) :
          IF name = dexServer /\ isDexDisabled
          THEN RolesNamed(n, name, c) = {}
          ELSE /\ Cardinality(RolesNamed(n, name, c)) = 1
               /\ \A k \in RolesNamed(n, name, c) :
                     k8sRoles[k].rules = BuiltRoleRules(name, c)
    /\ \A name \in Range(ClusterRoleComponents) :
          LET n == GenerateUniqueResourceName(name, c)
          IN IF allowedNamespace(c.Namespace, clusterConfigNamespaces)
             THEN /\ n \in DOMAIN k8sClusterRoles
                  /\ k8sClusterRoles[n].rules = BuiltClusterRoleRules(name, c)
             ELSE n \notin DOMAIN k8sClusterRoles

\* A registered hook returns an error for an object a pass of c builds.
HooksReject(c) ==
    \/ /\ Managed(c) # {}
       /\ \E name \in Range(RoleComponents) :
            applyReconcilerHook(hooks,
                newRole(name, RoleRules(name, c), c)).err # ""
    \/ \E name \in Range(ClusterRoleComponents) :
            applyReconcilerHook(hooks,
                newClusterRole(name, ClusterRoleRules(name), c)).err # ""

RoleOrder == <<applicationController, dexServer, server, redisHa>>
ClusterRoleOrder == <<applicationController, server>>

\* C12: inside reconcileRoles the Roles are reconciled in the order
\* application-controller, dex-server, server, redis-ha, and the ClusterRoles
\* (application-controller, then server) only after the four Role steps have
\* succeeded; the first step that fails ends the pass, so no API call of a
\* later component or of a ClusterRole follows a failed step.
C12_Ordering ==
    entry = "reconcileRoles" =>
      /\ \A i \in CallIdx :
           LET call == calls[i]
           IN /\ call.phase \in 1..(Len(RoleOrder) + Len(ClusterRoleOrder))
              /\ IF call.phase <= Len(RoleOrder)
                 THEN /\ call.kind \in {"Namespace", "Role"}
                      /\ call.kind = "Role" =>
                           call.name =
                             generateResourceName(RoleOrder[call.phase], cr)
                 ELSE /\ call.kind = "ClusterRole"
                      /\ call.name = GenerateUniqueResourceName(
                           ClusterRoleOrder[call.phase - Len(RoleOrder)], cr)
              \* every earlier step has run, and none of its calls failed
              /\ \A q \in 1..(call.phase - 1) :
                   /\ CallsOfPhase(q) # << >>
                   /\ AllOK(CallsOfPhase(q))
      /\ \A i, j \in CallIdx :
           i < j => calls[i].phase <= calls[j].phase /\ calls[i].ok
      /\ (ret.fn # "" /\ ret.err # "") =>
           /\ pc = "idle"
           /\ \A i \in CallIdx : calls[i].phase <= ret.phase

\* The server Role step has failed after the Dex step wrote a Role.
C12_Witness ==
    /\ entry = "reconcileRoles"
    /\ ret.fn = "reconcileRole" /\ ret.err # "" /\ ret.phase = 3
    /\ \E i \in CallIdx : calls[i].phase = 2 /\ calls[i].op \in Writes

(***************************************************************************)
(* C13                                                                     *)
(***************************************************************************)
\* The build links a controller-runtime that validates owner references, or
\* one that does not.
InitOwner == InitCluster /\ validateOwner \in BOOLEAN

SpecOwner == InitOwner /\ [][Next]_vars

\* C13: every Role and every ClusterRole the reconciler has created carried,
\* when its Create was issued, a controller owner reference to the custom
\* resource of the instance that created it, also a Role of a managed
\* namespace other than the instance's own and a ClusterRole.
C13_Original ==
    /\ \A k \in DOMAIN k8sRoles :
          k8sRoles[k].creator # NoCR =>
              k8sRoles[k].owner = k8sRoles[k].creator
    /\ \A n \in DOMAIN k8sClusterRoles :
          k8sClusterRoles[n].creator # NoCR =>
              k8sClusterRoles[n].owner = k8sClusterRoles[n].creator

(***************************************************************************)
(* The proxy injector on its own and inside reconcileDeployments: the list *)
(* proxyEnvVars is called with is also the environment the user gave the   *)
(* plugin container, the process environment is any setting of the three   *)
(* variables, and the Deployments do not exist yet or were created while   *)
(* the variables were unset.                                               *)
(***************************************************************************)
InitRolesIdle ==
    /\ instances = {TestCR} /\ validateOwner = TRUE
    /\ clusterConfigNamespaces = {}
    /\ managedBy = [n \in Namespaces |-> ""]
    /\ k8sRoles = EmptyStore /\ k8sClusterRoles = EmptyStore
    /\ InitPass

InitProxy ==
    /\ InitRolesIdle
    /\ disableDex = FALSE
    /\ hooks = << >>
    /\ procEnv \in ProcEnvs
    /\ \E v \in EnvLists, ha \in BOOLEAN :
        /\ proxyCall = [vars |-> v, result |-> v, applied |-> 0]
        /\ argocd = [NoSpec EXCEPT
                        !.HA = ha, !.Grafana = TRUE,
                        !.PluginContainers =
                           <<Plugin("cdk8s", "docker.ui/cdk8s/cdk8s:latest",
                                    v)>>]
    /\ k8sDeployments \in
          {EmptyStore,
           reconcileDeployments(EmptyStore, TestCR, argocd, ProxyUnset,
                                << >>, disableDex).store}
    /\ dret = NoDret /\ cmdLog = << >>

NextProxy ==
    \/ CallProxyEnvVars
    \/ \E c \in instances : CallReconcileDeployments(c)

SpecProxy == InitProxy /\ [][NextProxy]_vars

(***************************************************************************)
(* C14                                                                     *)
(***************************************************************************)
\* The proxy variables proxyEnvVars has to add to a list: those of
\* HTTP_PROXY, HTTPS_PROXY, no_proxy, in that order, that have a value in the
\* process and whose name is not in the list under any case variant.
Missing(list, env) ==
    LET keys == SelectSeq(<<"HTTP_PROXY", "HTTPS_PROXY", "no_proxy">>,
                   LAMBDA k :
                     /\ env[k] # ""
                     /\ \A i \in 1..Len(list) :
                           ToLower(list[i].Name) # ToLower(k))
    IN [i \in 1..Len(keys) |-> [Name |-> keys[i], Value |-> env[keys[i]]]]

\* C14: proxyEnvVars returns its argument unchanged as a prefix, followed by
\* the proxy variables that have a value in the process and are not in the
\* argument under any case variant, in the order HTTP_PROXY, HTTPS_PROXY,
\* no_proxy; a variable without a value is not appended and no entry of the
\* argument is overwritten.
C14_ProxyEnvVars ==
    proxyCall.applied > 0 =>
        /\ SubSeq(proxyCall.result, 1, Len(proxyCall.vars)) = proxyCall.vars
        /\ proxyCall.result = proxyCall.vars \o Missing(proxyCall.vars, procEnv)
        /\ \A i \in (Len(proxyCall.vars) + 1)..Len(proxyCall.result) :
              proxyCall.result[i].Value # ""

\* proxyEnvVars was given a list that holds one proxy variable in another
\* case and with another value, and has added one of the others.
C14_Witness ==
    /\ proxyCall.applied = 1
    /\ \E i \in 1..Len(proxyCall.vars) :
          /\ proxyCall.vars[i].Name = "http_proxy"
          /\ proxyCall.vars[i].Value # procEnv["HTTP_PROXY"]
    /\ procEnv["HTTP_PROXY"] # "" /\ procEnv["HTTPS_PROXY"] = ""
    /\ Len(proxyCall.result) = Len(proxyCall.vars) + 1

(***************************************************************************)
(* C15                                                                     *)
(***************************************************************************)
\* reconcileDeployments has returned nil.
DeploymentsOK == dret.fn = "reconcileDeployments" /\ dret.err = ""

\* The number of entries of a list that name key under some case variant.
Count(list, key) ==
    Cardinality({i \in 1..Len(list) : ToLower(list[i].Name) = ToLower(key)})

\* The stored containers and init containers of the instance's Deployments,
\* each with the environment it had before the proxy variables were added.
StoredContainers ==
    UNION {
      LET d == k8sDeployments[nameWithSuffix(suffix, TestCR)]
      IN {[deployment |-> suffix, init |-> FALSE, container |-> d.containers[i],
           base |-> ContainersOf(suffix, argocd)[i].Env] :
              i \in 1..Len(d.containers)}
         \cup
         {[deployment |-> suffix, init |-> TRUE,
           container |-> d.initContainers[i],
           base |-> InitContainersOf(suffix, argocd)[i].Env] :
              i \in 1..Len(d.initContainers)} :
      suffix \in {x \in Range(DeploymentOrder) :
                    nameWithSuffix(x, TestCR) \in DOMAIN k8sDeployments} }

ProxyKeySet == {"HTTP_PROXY", "HTTPS_PROXY", "no_proxy"}

\* C15 as stated: applying the injector to its own output returns the same
\* list, and after any number of reconcileDeployments passes with the same
\* proxy environment every container's environment holds each proxy variable
\* of the process exactly once.
C15_Original ==
    /\ proxyCall.applied >= 2 => proxyCall.result = proxyCall.vars
    /\ DeploymentsOK =>
         \A sc \in StoredContainers :
            /\ proxyEnvVars(sc.container.Env, procEnv) = sc.container.Env
            /\ \A key \in ProxyKeySet :
                  procEnv[key] # "" => Count(sc.container.Env, key) = 1

\* C15 as amended: the same, but a container whose own entries hold a proxy
\* variable more than once, under case variants, keeps them: the passes add
\* no entry to those.
C15_Idempotent ==
    /\ proxyCall.applied >= 2 => proxyCall.result = proxyCall.vars
    /\ DeploymentsOK =>
         \A sc \in StoredContainers :
            /\ proxyEnvVars(sc.container.Env, procEnv) = sc.container.Env
            /\ \A key \in ProxyKeySet :
                  procEnv[key] # "" =>
                     Count(sc.container.Env, key) =
                        IF Count(sc.base, key) = 0 THEN 1
                        ELSE Count(sc.base, key)

\* proxyEnvVars has been applied to its own result, and reconcileDeployments
\* has run over Deployments that existed, with the three variables set and a
\* plugin container that came with one of them.
C15_Witness ==
    /\ proxyCall.applied = 2
    /\ DeploymentsOK /\ nameWithSuffix("repo-server", TestCR) \in dret.found
    /\ procEnv = ProxySet
    /\ \E sc \in StoredContainers :
          /\ Count(sc.base, "HTTP_PROXY") = 1
          /\ Len(sc.container.Env) = Len(sc.base) + 2

(***************************************************************************)
(* C16                                                                     *)
(***************************************************************************)
\* The Deployments the instance is to have.
ManagedDeployments ==
    {suffix \in Range(DeploymentOrder) :
        /\ Wanted(suffix, argocd)
        /\ ~(suffix = "dex-server" /\ isDexDisabled)}

AllStored ==
    \A suffix \in ManagedDeployments :
        nameWithSuffix(suffix, TestCR) \in DOMAIN k8sDeployments

TheThree ==
    <<[Name |-> "HTTP_PROXY", Value |-> testHTTPProxy],
      [Name |-> "HTTPS_PROXY", Value |-> testHTTPSProxy],
      [Name |-> "no_proxy", Value |-> testNoProxy]>>

\* C16 as stated: after a successful reconcileDeployments with the three
\* variables set, every container and init container of every managed
\* Deployment carries exactly the three entries, in that order, after its
\* pre-existing entries, whether the pass created the Deployment or found
\* it; with the three unset, none carries any of them.
C16_Original ==
    DeploymentsOK =>
        /\ AllStored
        /\ procEnv = ProxySet =>
              \A sc \in StoredContainers :
                  sc.container.Env = sc.base \o TheThree
        /\ procEnv = ProxyUnset =>
              \A sc \in StoredContainers : sc.container.Env = sc.base

\* C16 as amended: with the three variables set, every container and init
\* container carries, after its pre-existing entries and in that order,
\* those of the three whose name its pre-existing entries do not hold under
\* any case variant: all three when it has no such entry.
C16_ProxyInDeployments ==
    DeploymentsOK =>
        /\ AllStored
        /\ procEnv = ProxySet =>
              \A sc \in StoredContainers :
                  /\ sc.container.Env = sc.base \o Missing(sc.base, ProxySet)
                  /\ (\A key \in ProxyKeySet : Count(sc.base, key) = 0) =>
                        sc.container.Env = sc.base \o TheThree
        /\ procEnv = ProxyUnset =>
              \A sc \in StoredContainers : sc.container.Env = sc.base

\* In HA mode, with the three variables set, a pass has updated Deployments
\* that existed without the entries; a container came with an entry of its
\* own.
C16_Witness ==
    /\ DeploymentsOK /\ procEnv = ProxySet /\ argocd.HA
    /\ nameWithSuffix("redis-ha-haproxy", TestCR) \in dret.found
    /\ \E sc \in StoredContainers :
          /\ sc.base = <<[Name |-> "TEST_VAR", Value |-> "testing"]>>
          /\ Len(sc.container.Env) = 4
    /\ \E sc \in StoredContainers : sc.init /\ sc.container.Env = TheThree

(***************************************************************************)
(* The handlers one at a time, as the tests call them: entry is the       *)
(* handler a run calls (reconcileRoles among them), the Deployments do not *)
(* exist yet or were created for the custom resource of the tests with one *)
(* plugin container, and the toggle, the plugin containers, DISABLE_DEX    *)
(* and the hook registry change between the calls.                         *)
(***************************************************************************)
Handlers == {"dex-server", "server", "repo-server", "redis"}
TestHooks == DeploymentHooks \cup {"testRulesHook"}

FirstSpec ==
    [NoSpec EXCEPT !.PluginContainers =
        <<Plugin("cdk8s", "docker.ui/cdk8s/cdk8s:latest", << >>)>>]
FirstStore ==
    reconcileDeployments(EmptyStore, TestCR, FirstSpec, ProxyUnset, << >>,
                         FALSE).store

\* A repo-server Deployment that was not made by the operator: without
\* volumes and mounts, or with volumes and mounts of its own.
OtherRepoDeployment(volumes, mounts, initMounts) ==
    [kind |-> "Deployment", name |-> nameWithSuffix("repo-server", TestCR),
     namespace |-> TestCR.Namespace, replicas |-> 1, volumes |-> volumes,
     initContainers |->
        <<Mounted(Container("", "test-image-init", <<"testing-init">>, << >>),
                  initMounts)>>,
     containers |->
        <<Mounted(Container("", "test-image", <<"testing">>, << >>),
                  mounts)>>]
OtherRepoStores ==
    {Put(EmptyStore, nameWithSuffix("repo-server", TestCR), d) :
        d \in {OtherRepoDeployment(<< >>, << >>, << >>),
               OtherRepoDeployment(
                  <<Volume("old-volume", "EmptyDir"),
                    Volume("var-files", "EmptyDir")>>,
                  <<VolumeMount("old-volume", "/old"),
                    VolumeMount("var-files", "/var/run/argocd")>>,
                  <<VolumeMount("old-volume", "/old")>>)}}

InitDeploy ==
    /\ instances = {TestCR} /\ validateOwner = TRUE
    /\ clusterConfigNamespaces = {TestCR.Namespace}
    /\ managedBy = [n \in Namespaces |-> TestCR.Namespace]
    /\ k8sRoles = StaleRoles({NamespaceOrder[Len(NamespaceOrder)]}, TestCR)
    /\ k8sClusterRoles = StaleClusterRoles({server}, TestCR)
    /\ \E e \in {HandlerOf(suffix) : suffix \in Handlers} \cup {"reconcileRoles"} :
          InitPassAt(e)
    /\ disableDex \in BOOLEAN
    /\ hooks \in {<< >>} \cup {<<h>> : h \in TestHooks}
    /\ procEnv = ProxyUnset
    /\ proxyCall = NoProxyCall
    /\ \E b \in BOOLEAN, list \in PluginLists :
          /\ argocd = [NoSpec EXCEPT !.Insecure = b, !.PluginContainers = list]
          /\ entry = "reconcileRoles" => argocd = NoSpec
    /\ k8sDeployments \in
          {EmptyStore, FirstStore}
             \cup (IF entry = "reconcileRepoDeployment" THEN OtherRepoStores
                   ELSE {})
    /\ cmdLog = IF k8sDeployments # FirstStore THEN << >>
                ELSE <<[insecure |-> FirstSpec.Insecure,
                        command |-> getArgoServerCommand(FirstSpec)]>>
    /\ dret = NoDret

NextDeploy ==
    \/ \E c \in instances, suffix \in Handlers :
          CallReconcileDeployment(c, suffix)
    \/ \E c \in instances : entry = "reconcileRoles" /\ StartReconcileRoles(c)
    \/ RoleList
    \/ RoleGet
    \/ RoleWrite
    \/ ClusterRoleGet
    \/ ClusterRoleWrite
    \/ \E b \in BOOLEAN : SetDisableDex(b)
    \/ \E h \in TestHooks : Register(h)
    \/ resetHooks
    \/ \E b \in BOOLEAN : entry # "reconcileRoles" /\ SetInsecure(b)
    \/ \E list \in PluginLists :
          entry # "reconcileRoles" /\ SetPluginContainers(list)
    \/ \E i \in ImageSpecs : entry = "reconcileDexDeployment" /\ SetImages(i)

SpecDeploy == InitDeploy /\ [][NextDeploy]_vars

(***************************************************************************)
(* C17                                                                     *)
(***************************************************************************)
\* The handler fn has returned nil.
HandlerOK(fn) == dret.fn = fn /\ dret.err = ""

DexName == nameWithSuffix("dex-server", TestCR)

\* C17: after a successful reconcileDexDeployment with DISABLE_DEX=true no
\* Deployment <instance>-dex-server exists, whether one existed before or
\* not; after a successful one with Dex enabled the Deployment exists, with
\* the canonical pod spec.
C17_DexDeploymentLifecycle ==
    HandlerOK("reconcileDexDeployment") =>
        IF dret.disableDex
        THEN DexName \notin DOMAIN k8sDeployments
        ELSE /\ DexName \in DOMAIN k8sDeployments
             /\ k8sDeployments[DexName].initContainers =
                   <<[Name |-> "copyutil",
                      Image |-> getArgoContainerImage(argocd),
                      Command |-> <<"cp", "-n", "/usr/local/bin/argocd",
                                    "/shared/argocd-dex">>,
                      Env |-> << >>,
                      VolumeMounts |->
                         <<VolumeMount("static-files", "/shared")>>]>>
             /\ k8sDeployments[DexName].containers =
                   <<[Name |-> "dex", Image |-> getDexContainerImage(argocd),
                      Command |-> <<"/shared/argocd-dex", "rundex">>,
                      Env |-> << >>,
                      VolumeMounts |->
                         <<VolumeMount("static-files", "/shared")>>]>>
             /\ k8sDeployments[DexName].volumes =
                   <<Volume("static-files", "EmptyDir")>>

\* The Dex Deployment existed at the start, a pass with Dex disabled has
\* deleted it, and a pass with Dex enabled has created it again.
C17_Witness ==
    /\ HandlerOK("reconcileDexDeployment") /\ ~dret.disableDex
    /\ cmdLog # << >>
    /\ DexName \notin dret.found
    /\ DexName \in DOMAIN k8sDeployments

(***************************************************************************)
(* C18                                                                     *)
(***************************************************************************)
ServerName == nameWithSuffix("server", TestCR)

\* The command a reconcileServerDeployment on an empty cluster stores.
FreshServerCommand ==
    reconcileDeployment("server", EmptyStore, TestCR, argocd, procEnv, << >>,
                        isDexDisabled).store[ServerName].containers[1].Command

Occurrences(list, x) == Cardinality({i \in 1..Len(list) : list[i] = x})

\* C18: after each reconcileServerDeployment the command of the server
\* container is the list a fresh reconcile with the current value of
\* Spec.Server.Insecure produces; with the toggle true --insecure is there
\* once, directly after argocd-server and before --staticassets, with the
\* toggle false it is absent; toggling false, true, false with a reconcile
\* after each change gives the initial list again.
C18_ServerCommand ==
    /\ HandlerOK("reconcileServerDeployment") =>
          LET cmd == k8sDeployments[ServerName].containers[1].Command
          IN /\ cmd = FreshServerCommand
             /\ cmd[1] = "argocd-server"
             /\ IF argocd.Insecure
                THEN /\ Occurrences(cmd, "--insecure") = 1
                     /\ cmd[2] = "--insecure" /\ cmd[3] = "--staticassets"
                ELSE /\ Occurrences(cmd, "--insecure") = 0
                     /\ cmd[2] = "--staticassets"
    /\ \A i, j \in DOMAIN cmdLog :
          cmdLog[i].insecure = cmdLog[j].insecure =>
              cmdLog[i].command = cmdLog[j].command

\* The toggle went false, true, false with a reconcileServerDeployment after
\* each change.
C18_Witness ==
    /\ HandlerOK("reconcileServerDeployment")
    /\ Len(cmdLog) = 3
    /\ ~cmdLog[1].insecure /\ cmdLog[2].insecure /\ ~cmdLog[3].insecure
    /\ cmdLog[2].command # cmdLog[1].command

(***************************************************************************)
(* C19                                                                     *)
(***************************************************************************)
RepoName == nameWithSuffix("repo-server", TestCR)

\* C19: after reconcileRepoDeployment the containers of the Deployment are
\* the default repo-server container followed by the plugin containers of
\* the custom resource in their order; after a plugin container was renamed
\* and given another image, its slot holds the new container in full, the
\* number of containers is the same and no copy of the old one is left.
C19_PluginContainers ==
    HandlerOK("reconcileRepoDeployment") =>
        LET cs == k8sDeployments[RepoName].containers
            plugins == argocd.PluginContainers
        IN /\ Len(cs) = 1 + Len(plugins)
           /\ cs[1].Name = "argocd-repo-server"
           /\ \A j \in 1..Len(plugins) : cs[j + 1] = plugins[j]
           /\ \A i \in 2..Len(cs) :
                 \E j \in 1..Len(plugins) :
                    cs[i].Name = plugins[j].Name /\ cs[i].Image = plugins[j].Image

\* The Deployment existed with the plugin container cdk8s; the custom
\* resource now names it newname with another image, and the Deployment was
\* reconciled again.
C19_Witness ==
    /\ HandlerOK("reconcileRepoDeployment")
    /\ RepoName \in dret.found
    /\ cmdLog # << >>
    /\ Len(argocd.PluginContainers) = 1
    /\ argocd.PluginContainers[1].Name = "newname"
    /\ Len(k8sDeployments[RepoName].containers) = 2
    /\ k8sDeployments[RepoName].containers[2].Image = "newimage:latest"

(***************************************************************************)
(* C20                                                                     *)
(***************************************************************************)
\* The object as the hooks hs leave it.
LeftByHooks(hs, obj) == applyHooksFrom(hs, 1, obj).obj

\* The Deployment a handler builds now, and the Role or ClusterRole built for
\* the object of an API call.
BuiltDeployment(suffix) == newDeployment(suffix, TestCR, argocd, procEnv)
BuiltFor(c) ==
    IF c.kind = "Role"
    THEN newRole(PhaseName(c.phase), RoleRules(PhaseName(c.phase), cr), cr)
    ELSE newClusterRole(PhaseName(c.phase),
                        ClusterRoleRules(PhaseName(c.phase)), cr)

HandlerStep(suffix) ==
    /\ dret' # dret \/ k8sDeployments' # k8sDeployments
    /\ dret'.fn = HandlerOf(suffix) /\ dret'.err = ""
    /\ BuiltDeployment(suffix).name \in DOMAIN k8sDeployments'

\* A Create or an Update of a Role or ClusterRole has just succeeded.
RuleWriteStep ==
    /\ Len(calls') = Len(calls) + 1
    /\ calls'[Len(calls')].op \in {"create", "update"}
    /\ calls'[Len(calls')].ok

RedisName == nameWithSuffix("redis", TestCR)

FreshRepoDeployment ==
    reconcileDeployment("repo-server", EmptyStore, TestCR, argocd, procEnv,
                        << >>, FALSE).store[RepoName]

\* C21: after reconcileRepoDeployment the Deployment has exactly the six
\* default volumes, its first container exactly the six default mounts and
\* its first init container exactly the mount var-files, the lists of a
\* freshly created Deployment, also when the Deployment existed with other
\* volumes and mounts or with none.
C21_VolumesReplaced ==
    HandlerOK("reconcileRepoDeployment") =>
        LET d == k8sDeployments[RepoName]
        IN /\ d.volumes = repoServerDefaultVolumes
           /\ Len(d.volumes) = 6
           /\ d.containers[1].VolumeMounts = repoServerDefaultVolumeMounts
           /\ Len(d.containers[1].VolumeMounts) = 6
           /\ d.initContainers[1].VolumeMounts =
                 <<VolumeMount("var-files", "/var/run/argocd")>>
           /\ d.volumes = FreshRepoDeployment.volumes
           /\ d.containers[1].VolumeMounts =
                 FreshRepoDeployment.containers[1].VolumeMounts
           /\ d.initContainers[1].VolumeMounts =
                 FreshRepoDeployment.initContainers[1].VolumeMounts

\* The handler found a Deployment with volumes and mounts of its own, one
\* of them under the name of a default volume, and updated it.
C21_Witness ==
    /\ HandlerOK("reconcileRepoDeployment")
    /\ RepoName \in dret.found
    /\ \E i \in DOMAIN dret.before[RepoName].volumes :
          dret.before[RepoName].volumes[i].Name = "old-volume"
    /\ \E i \in DOMAIN dret.before[RepoName].volumes :
          dret.before[RepoName].volumes[i].Name = "var-files"
    /\ dret.before[RepoName].containers[1].VolumeMounts # << >>
    /\ Len(k8sDeployments[RepoName].volumes) = 6

(***************************************************************************)
(* C22                                                                     *)
(***************************************************************************)
\* The Dex Deployment a first reconcile creates for the custom resource of
\* the tests, and a container list without its images.
FirstDexDeployment ==
    reconcileDeployment("dex-server", EmptyStore, TestCR, NoSpec, procEnv,
                        << >>, FALSE).store[DexName]
WithoutImages(containers) ==
    [i \in DOMAIN containers |-> [containers[i] EXCEPT !.Image = ""]]

\* C22: after the image and version fields of the custom resource and of
\* its Dex section were changed and reconcileDexDeployment ran again on the
\* Deployment it had created, the init container has the new Argo CD
\* image:version, the container the new Dex image:version, and everything
\* else in the pod spec is what a first reconcile produces.
C22_DexImageUpdate ==
    HandlerOK("reconcileDexDeployment") /\ ~dret.disableDex =>
        LET d == k8sDeployments[DexName]
        IN /\ d.initContainers[1].Image = getArgoContainerImage(argocd)
           /\ d.containers[1].Image = getDexContainerImage(argocd)
           /\ argocd.Image = "justatest" /\ argocd.Version = "latest" =>
                 d.initContainers[1].Image = "justatest:latest"
           /\ argocd.DexImage = "testdex" /\ argocd.DexVersion = "v0.0.1" =>
                 d.containers[1].Image = "testdex:v0.0.1"
           /\ d.volumes = FirstDexDeployment.volumes
           /\ WithoutImages(d.initContainers) =
                 WithoutImages(FirstDexDeployment.initContainers)
           /\ WithoutImages(d.containers) =
                 WithoutImages(FirstDexDeployment.containers)

\* The handler found the Deployment with the default images and left it
\* with the images the custom resource now names.
C22_Witness ==
    /\ HandlerOK("reconcileDexDeployment") /\ ~dret.disableDex
    /\ DexName \in dret.found
    /\ dret.before[DexName].containers[1].Image = getDexContainerImage(NoSpec)
    /\ dret.before[DexName].initContainers[1].Image =
          getArgoContainerImage(NoSpec)
    /\ k8sDeployments[DexName].containers[1].Image = "testdex:v0.0.1"
    /\ k8sDeployments[DexName].initContainers[1].Image = "justatest:latest"

(***************************************************************************)
(* C23                                                                     *)
(***************************************************************************)
\* reconcileRole has returned a list and nil, in the current or last pass.
RoleListReturned == ret.fn = "reconcileRole" /\ ret.err = ""

\* C23: every Role of the list a successful reconcileRole returned exists in
\* the cluster, in the namespace and with the rules its entry shows, and the
\* list has one entry for every managed namespace that holds the
\* component's Role and none for a namespace that does not hold it.
C23_Original ==
    RoleListReturned =>
        /\ \A i \in DOMAIN ret.val :
              /\ RoleKey(ret.val[i]) \in DOMAIN k8sRoles
              /\ k8sRoles[RoleKey(ret.val[i])].rules = ret.val[i].rules
        /\ \A n \in Range(namespaces) :
              LET entries == {i \in DOMAIN ret.val : ret.val[i].namespace = n}
                  held == <<n, generateResourceName(ret.name, cr)>>
                             \in DOMAIN k8sRoles
              IN Cardinality(entries) = IF held THEN 1 ELSE 0

(***************************************************************************)
(* C24                                                                     *)
(***************************************************************************)
\* C24: every Create, Update and Delete of a Role that a pass issues is for
\* a namespace that carries the managed-by label of the instance, the one
\* at its position in the list the pass's List call returned; a Role that
\* was in a namespace without the label when the pass started, also one an
\* earlier pass created there, is in the cluster as it was.
C24_OnlyManagedNamespaces ==
    /\ \A i \in CallIdx :
          calls[i].kind = "Role" /\ calls[i].op \in Writes =>
             /\ calls[i].at \in DOMAIN namespaces
             /\ namespaces[calls[i].at] = calls[i].namespace
             /\ EnvOfPass => managedBy[calls[i].namespace] = cr.Namespace
    /\ EnvOfPass =>
          \A k \in DOMAIN snap.roles :
             managedBy[k[1]] # cr.Namespace =>
                k \in DOMAIN k8sRoles /\ k8sRoles[k] = snap.roles[k]

\* A pass has created Roles in a namespace, the namespace has lost the
\* label, and a later pass has written in the namespace that still has it
\* and returned nil.
C24_Witness ==
    /\ PassOK
    /\ \E k \in DOMAIN k8sRoles :
          managedBy[k[1]] # cr.Namespace /\ k8sRoles[k].creator = cr
    /\ \E i \in CallIdx : calls[i].kind = "Role" /\ calls[i].op \in Writes

(***************************************************************************)
(* C25                                                                     *)
(***************************************************************************)
\* An object without its rule list.
WithoutRules(obj) == [obj EXCEPT !.rules = << >>]

\* The successful Updates of the current or last pass.
Updates == {i \in CallIdx : calls[i].op = "update" /\ calls[i].ok}

\* C25: an Update by reconcileRole or reconcileClusterRole changes nothing
\* but the rule list of the existing object: its name, namespace, labels and
\* owner reference are those it had when the pass started, so an object
\* without the owner reference or the instance label stays without them.
C25_UpdateChangesRulesOnly ==
    \A i \in Updates :
        LET k == KeyOf(calls[i])
        IN /\ k \in DOMAIN SnapOf(calls[i]) /\ k \in DOMAIN StoreOf(calls[i])
           /\ WithoutRules(StoreOf(calls[i])[k]) = WithoutRules(SnapOf(calls[i])[k])
           /\ SnapOf(calls[i])[k].owner = NoCR =>
                 StoreOf(calls[i])[k].owner = NoCR
           /\ SnapOf(calls[i])[k].labels = "" =>
                 StoreOf(calls[i])[k].labels = ""

\* A pass has updated a Role and a ClusterRole that had neither the owner
\* reference nor the label, and their rules are no longer the old ones.
C25_Witness ==
    /\ \E i \in Updates :
          /\ calls[i].kind = "Role"
          /\ k8sRoles[KeyOf(calls[i])].owner = NoCR
          /\ k8sRoles[KeyOf(calls[i])].labels = ""
          /\ k8sRoles[KeyOf(calls[i])].rules # snap.roles[KeyOf(calls[i])].rules
    /\ \E i \in Updates :
          /\ calls[i].kind = "ClusterRole"
          /\ k8sClusterRoles[KeyOf(calls[i])].owner = NoCR
          /\ k8sClusterRoles[KeyOf(calls[i])].labels = ""
          /\ k8sClusterRoles[KeyOf(calls[i])].rules #
                snap.clusterRoles[KeyOf(calls[i])].rules

(***************************************************************************)
(* C26                                                                     *)
(***************************************************************************)
\* The Get at position i of the log is followed by a Create or an Update of
\* the same object: a Create when the pass started without the object, an
\* Update when it started with it; or the write is the next step to come.
WriteFollows(i) ==
    IF i = Len(calls)
    THEN pc \in {"write", "crwrite"}
    ELSE /\ calls[i + 1].kind = calls[i].kind
         /\ KeyOf(calls[i + 1]) = KeyOf(calls[i])
         /\ calls[i + 1].op =
               IF KeyOf(calls[i]) \in DOMAIN SnapOf(calls[i])
               THEN "update" ELSE "create"

\* C26: whatever DISABLE_DEX and ARGOCD_CLUSTER_CONFIG_NAMESPACES are, the
\* Get of a Role of application-controller, server or redis-ha is followed
\* by its Create or Update and no such Role is deleted; the Get of a
\* ClusterRole is followed by its Create or Update whenever the instance's
\* namespace is in the list, whatever DISABLE_DEX is; and a pass that
\* returns nil leaves those Roles in every managed namespace, and those
\* ClusterRoles when the namespace is in the list, with the built rules.
C26_GatesOwnObjects ==
    /\ \A i \in CallIdx :
          calls[i].kind = "Role" /\ PhaseName(calls[i].phase) # dexServer =>
             /\ calls[i].op # "delete"
             /\ calls[i].op = "get" /\ calls[i].ok => WriteFollows(i)
    /\ EnvOfPass /\ allowedNamespace(cr.Namespace, clusterConfigNamespaces) =>
          \A i \in CallIdx :
             calls[i].kind = "ClusterRole" =>
                /\ calls[i].op # "delete"
                /\ calls[i].op = "get" /\ calls[i].ok => WriteFollows(i)
    /\ PassOK =>
          /\ \A n \in Managed(cr), name \in Range(RoleComponents) \ {dexServer} :
                /\ <<n, generateResourceName(name, cr)>> \in DOMAIN k8sRoles
                /\ k8sRoles[<<n, generateResourceName(name, cr)>>].rules =
                      LeftByHooks(hooks, newRole(name, RoleRules(name, cr), cr)).rules
          /\ allowedNamespace(cr.Namespace, clusterConfigNamespaces) =>
                \A name \in Range(ClusterRoleComponents) :
                   /\ GenerateUniqueResourceName(name, cr) \in DOMAIN k8sClusterRoles
                   /\ k8sClusterRoles[GenerateUniqueResourceName(name, cr)].rules =
                         LeftByHooks(hooks,
                            newClusterRole(name, ClusterRoleRules(name), cr)).rules

\* A pass with Dex disabled and the instance's namespace not in the list
\* has deleted a Dex Role and a ClusterRole, created and updated Roles of
\* the other components, and returned nil.
C26_Witness ==
    /\ PassOK /\ isDexDisabled
    /\ ~allowedNamespace(cr.Namespace, clusterConfigNamespaces)
    /\ \E i \in CallIdx :
          calls[i].kind = "Role" /\ calls[i].op = "delete" /\ calls[i].ok
    /\ \E i \in CallIdx :
          calls[i].kind = "ClusterRole" /\ calls[i].op = "delete" /\ calls[i].ok
    /\ \E i \in CallIdx :
          /\ calls[i].kind = "Role" /\ calls[i].op = "create" /\ calls[i].ok
          /\ PhaseName(calls[i].phase) = server
    /\ \E i \in CallIdx :
          /\ calls[i].kind = "Role" /\ calls[i].op = "update" /\ calls[i].ok
          /\ PhaseName(calls[i].phase) = redisHa

\* A pass with Dex disabled and the instance's namespace in the list has
\* created and updated ClusterRoles and returned nil.
C26_WitnessClusterRoles ==
    /\ PassOK /\ isDexDisabled
    /\ allowedNamespace(cr.Namespace, clusterConfigNamespaces)
    /\ \E i \in CallIdx :
          calls[i].kind = "ClusterRole" /\ calls[i].op = "create" /\ calls[i].ok
    /\ \E i \in CallIdx :
          calls[i].kind = "ClusterRole" /\ calls[i].op = "update" /\ calls[i].ok

(***************************************************************************)
(* Two workers run reconcileRole for the same instance and the same        *)
(* component at the same time.  One pass runs in the variables of the pass *)
(* and the other waits in other; between any two API calls the workers may *)
(* change places.                                                          *)
(***************************************************************************)
\* The pass that runs, as worker id.
Running(id) ==
    [id |-> id, pc |-> pc, namespaces |-> namespaces, idx |-> idx,
     roles |-> roles, desired |-> desired, existing |-> existing,
     ret |-> ret, done |-> done, calls |-> calls]

\* The worker that waits goes on and the one that ran waits.
Switch ==
    /\ other.id # 0
    /\ other.pc # "idle"
    /\ other' = Running(3 - other.id)
    /\ pc' = other.pc /\ namespaces' = other.namespaces /\ idx' = other.idx
    /\ roles' = other.roles /\ desired' = other.desired
    /\ existing' = other.existing /\ ret' = other.ret /\ done' = other.done
    /\ calls' = other.calls
    /\ UNCHANGED <<envVars, storeVars, entry, cr, phase, allowed, snap, events>>
    /\ UNCHANGED deployVars

\* Both workers have called reconcileRole for a component, with the same
\* flags, hooks and labels, and neither has issued its List yet.
InitRace ==
    /\ instances = {TestCR} /\ validateOwner = TRUE
    /\ disableDex \in BOOLEAN
    /\ clusterConfigNamespaces = {}
    /\ hooks \in {<< >>, <<"testRulesHook">>}
    /\ managedBy \in [Namespaces -> {"", TestCR.Namespace}]
    /\ \E f \in Fixtures(TestCR) : k8sRoles = f.roles
    /\ k8sClusterRoles = EmptyStore
    /\ entry = "reconcileRole" /\ cr = TestCR /\ pc = "list"
    /\ phase \in {p \in 1..Len(RoleComponents) :
                    RoleComponents[p] \in {applicationController, dexServer}}
    /\ namespaces = << >> /\ idx = 0 /\ roles = << >>
    /\ allowed = FALSE /\ desired = NoRole /\ existing = NoObj
    /\ ret = NoRet /\ done = "none" /\ calls = << >>
    /\ snap = [roles |-> k8sRoles, clusterRoles |-> k8sClusterRoles,
               afterOK |-> FALSE, prevOK |-> FALSE, prevDeleted |-> {}]
    /\ events = 0
    /\ other = Running(2)
    /\ DeployIdle

NextRace ==
    \/ RoleList
    \/ RoleGet
    \/ RoleWrite
    \/ Switch

SpecRace == InitRace /\ [][NextRace]_vars

(***************************************************************************)
(* C27                                                                     *)
(***************************************************************************)
\* The component of the race, its computed rules, and the Roles either pass
\* has created or updated.
RaceName == PhaseName(phase)
RaceRules == BuiltRoleRules(RaceName, cr)
WrittenIn(log) ==
    {<<log[i].namespace, log[i].name>> :
        i \in {j \in 1..Len(log) :
                 log[j].op \in {"create", "update"} /\ log[j].ok}}
RaceWritten == WrittenIn(calls) \cup WrittenIn(other.calls)
BothEnded == pc = "idle" /\ other.pc = "idle"
OneSucceeded == done = "ok" \/ other.done = "ok"
\* Every managed namespace holds what the flags call for.
RaceConverged ==
    \A n \in Managed(cr) :
        IF RaceName = dexServer /\ isDexDisabled
        THEN RolesNamed(n, RaceName, cr) = {}
        ELSE /\ Cardinality(RolesNamed(n, RaceName, cr)) = 1
             /\ \A k \in RolesNamed(n, RaceName, cr) :
                   k8sRoles[k].rules = RaceRules

\* C27 as stated: in every state of two interleaved passes, counted from
\* the first Create or Update of either pass, every managed namespace holds
\* at most one Role of the component's name and that Role has the computed
\* rules; and once both passes have ended and one of them succeeded, every
\* managed namespace holds what the flags call for.
C27_Original ==
    /\ RaceWritten # {} =>
          \A n \in Managed(cr) :
             /\ Cardinality(RolesNamed(n, RaceName, cr)) <= 1
             /\ \A k \in RolesNamed(n, RaceName, cr) :
                   k8sRoles[k].rules = RaceRules
    /\ BothEnded /\ OneSucceeded => RaceConverged

\* C27 as amended: in every state of two interleaved passes every managed
\* namespace holds at most one Role of the component's name; a Role of that
\* name that one of the passes has created or updated has the computed
\* rules, and one that neither has written is as it was before the passes,
\* whatever rules it had.  Without a failure of the API itself a pass
\* returns no error but that of its Create, Update or Delete.  Once both
\* passes have ended and one of them succeeded, every managed namespace
\* holds what the flags call for.
C27_InterleavedPasses ==
    /\ \A n \in Managed(cr) : Cardinality(RolesNamed(n, RaceName, cr)) <= 1
    /\ \A k \in DOMAIN k8sRoles :
          k8sRoles[k].name = generateResourceName(RaceName, cr) =>
             IF k \in RaceWritten
             THEN k8sRoles[k].rules = RaceRules
             ELSE k \in DOMAIN snap.roles /\ k8sRoles[k] = snap.roles[k]
    /\ events = 0 =>
          /\ ret.err \in {"", "create", "update", "delete"}
          /\ other.ret.err \in {"", "create", "update", "delete"}
    /\ BothEnded /\ OneSucceeded => RaceConverged

\* Both passes have ended without a failure of the API itself: one returned
\* nil, the other the error of a Create that came after the Create of the
\* first, and both managed namespaces hold the Role.
C27_Witness ==
    /\ BothEnded /\ OneSucceeded /\ events = 0
    /\ "create" \in {ret.err, other.ret.err}
    /\ Cardinality(Managed(cr)) = 2
    /\ RaceConverged
    /\ RaceWritten # {}

====
